---------------------------- MODULE Spec2Model ----------------------------
(***************************************************************************)
(* KeyForge: the desktop command facade (commands.rs) over the vault crate *)
(* (db.rs, token.rs, import.rs, export.rs, migrations.rs) and the crypto   *)
(* crate (aead.rs, kdf.rs, hotp.rs, totp.rs, random.rs).                   *)
(*                                                                         *)
(* Conventions                                                             *)
(*   Option<T>      None = << >>, Some(v) = << v >>                        *)
(*   Result<T, E>   [ok |-> TRUE, val |-> v] / [ok |-> FALSE, err |-> e]   *)
(*   String         a TLA+ string (read with Len / SubSeq)                  *)
(*   Vec<u8>, [u8]  a sequence of integers 0..255                          *)
(*   Uuid           an integer drawn from a counter (never reused)         *)
(*   Utc::now()     the integer clock                                      *)
(***************************************************************************)
EXTENDS Integers, Sequences, FiniteSets, TLC

\* the command a return record [op, res] belongs to.  Records are compared
\* field by field in the order their field names first occur, so op, named
\* here, is compared before res, whose values differ in kind from command
\* to command.
OpOf(r) == r.op

\* ------------------------------------------------------------------ bounds
\* Number of rows the commands may insert into or update in the token table
\* of one vault (a DELETE is not counted: it leaves fewer rows).
MaxWrites == 2
\* Largest value of the clock read by Utc::now() and SystemTime::now().
MaxClock == 1
\* Number of tokens added to a vault driven through the Vault methods alone,
\* and number of method calls made on it.
MaxRows == 3
MaxCalls == 4
\* Largest counter value token_increment_counter is followed to when commands
\* overlap.
MaxCounter == 2

\* --------------------------------------------------------- program constants
NONCE_SIZE == 12
TAG_SIZE == 16
SALT_SIZE == 16
KEY_LENGTH == 32
EXPORT_SALT_SIZE == 16
SCHEMA_VERSION == 1
DEFAULT_DIGITS == 6
DEFAULT_PERIOD == 30
DEFAULT_COUNTER == 0

DEFAULT_ISSUER == "Unknown"
DEFAULT_ALGORITHM == "SHA1"
TOKEN_TYPE_TOTP == "totp"
TOKEN_TYPE_HOTP == "hotp"
OTPAUTH_SCHEME == "otpauth://"
OTPAUTH_SCHEME_LEN == Len(OTPAUTH_SCHEME)
SUPPORTED_DIGITS == {6, 8}

\* ------------------------------------------------------------ Option/Result
None == << >>
Some(v) == << v >>
IsSome(o) == Len(o) = 1
Unwrap(o) == o[1]

Ok(v) == [ok |-> TRUE, val |-> v]
Err(e) == [ok |-> FALSE, err |-> e]

\* ------------------------------------------------------------ small helpers
Min(a, b) == IF a < b THEN a ELSE b

RECURSIVE Pow(_, _)
Pow(b, e) == IF e = 0 THEN 1 ELSE b * Pow(b, e - 1)

\* F(lo) \o F(lo + 1) \o ... \o F(hi), or empty when lo > hi; the range is
\* halved at each step
RECURSIVE CatRange(_, _, _, _)
CatRange(F(_), lo, hi, empty) ==
    IF lo > hi THEN empty
    ELSE IF lo = hi THEN F(lo)
    ELSE LET mid == (lo + hi) \div 2
         IN  CatRange(F, lo, mid, empty) \o CatRange(F, mid + 1, hi, empty)

\* s[lo] + ... + s[hi]
RECURSIVE SumRange(_, _, _)
SumRange(s, lo, hi) ==
    IF lo > hi THEN 0
    ELSE IF lo = hi THEN s[lo]
    ELSE LET mid == (lo + hi) \div 2
         IN  SumRange(s, lo, mid) + SumRange(s, mid + 1, hi)

SumSeq(s) == SumRange(s, 1, Len(s))

\* ------------------------------------------------------------------ strings
\* The printable ASCII characters, code 32 (space) to code 126 (~).  Code 96
\* (the grave accent) cannot be written in a TLA+ string; a tab holds its place.
Ascii == " !\"#$%&'()*+,-./0123456789:;<=>?@ABCDEFGHIJKLMNOPQRSTUVWXYZ[\\]^_\tabcdefghijklmnopqrstuvwxyz{|}~"

CharAt(s, i) == SubSeq(s, i, i)

AsciiChars == {CharAt(Ascii, i) : i \in 1..Len(Ascii)}

\* char -> code, for the printable characters
OrdTable == [c \in AsciiChars |-> 31 + (CHOOSE i \in 1..Len(Ascii) : CharAt(Ascii, i) = c)]

Ord(c) == OrdTable[c]

\* code -> char; a byte outside the printable range is shown as U+FFFD,
\* written "?" here (String::from_utf8_lossy)
Chr(b) == IF b >= 32 /\ b <= 126 THEN CharAt(Ascii, b - 31) ELSE "?"

\* str::as_bytes
StrBytes(s) == [i \in 1..Len(s) |-> Ord(CharAt(s, i))]

\* String::from_utf8 with the lossy fallback
BytesStr(bs) == CatRange(LAMBDA i : Chr(bs[i]), 1, Len(bs), "")

\* the string made of F(c) for every character c of s, in order
MapChars(F(_), s) == CatRange(LAMBDA i : F(CharAt(s, i)), 1, Len(s), "")

IsUpper(c) == Ord(c) >= 65 /\ Ord(c) <= 90
IsLower(c) == Ord(c) >= 97 /\ Ord(c) <= 122
IsDigit(c) == Ord(c) >= 48 /\ Ord(c) <= 57

UpperChar(c) == IF IsLower(c) THEN Chr(Ord(c) - 32) ELSE c
LowerChar(c) == IF IsUpper(c) THEN Chr(Ord(c) + 32) ELSE c

to_uppercase(s) == MapChars(UpperChar, s)

to_lowercase(s) == MapChars(LowerChar, s)

\* str::replace(chars, ""): drop every character of the set
StripChars(s, drop) == MapChars(LAMBDA c : IF c \in drop THEN "" ELSE c, s)

starts_with(s, p) == Len(s) >= Len(p) /\ SubSeq(s, 1, Len(p)) = p

\* index of the first occurrence of the character c in s from position i on,
\* 0 when absent
FindFrom(s, c, i) ==
    LET hits == {k \in i..Len(s) : CharAt(s, k) = c}
    IN  IF hits = {} THEN 0 ELSE CHOOSE k \in hits : \A j \in hits : k <= j

\* str::split_once(c): None, or Some(<<before, after>>)
split_once(s, c) ==
    LET i == FindFrom(s, c, 1)
    IN  IF i = 0 THEN None
        ELSE Some(<<SubSeq(s, 1, i - 1), SubSeq(s, i + 1, Len(s))>>)

\* str::split(c): the sequence of pieces (always at least one)
RECURSIVE split(_, _)
split(s, c) ==
    LET i == FindFrom(s, c, 1)
    IN  IF i = 0 THEN <<s>>
        ELSE <<SubSeq(s, 1, i - 1)>> \o split(SubSeq(s, i + 1, Len(s)), c)

\* ------------------------------------------------------------------ base32
\* base32::Alphabet::Rfc4648 { padding: false }
Base32Alphabet == "ABCDEFGHIJKLMNOPQRSTUVWXYZ234567"

Base32Chars == {CharAt(Base32Alphabet, i) : i \in 1..32}

\* value 0..31 of a character of the alphabet
Base32Value == [c \in Base32Chars |-> (CHOOSE i \in 1..32 : CharAt(Base32Alphabet, i) = c) - 1]

\* the five bits of a value, most significant first
Bits5(v) == [i \in 1..5 |-> (v \div Pow(2, 5 - i)) % 2]

\* the eight bits of a byte, most significant first
Bits8(b) == [i \in 1..8 |-> (b \div Pow(2, 8 - i)) % 2]

CharsToBits(s) ==
    [k \in 1..(5 * Len(s)) |->
        Bits5(Base32Value[CharAt(s, ((k - 1) \div 5) + 1)])[((k - 1) % 5) + 1]]

BytesToBits(bs) ==
    [k \in 1..(8 * Len(bs)) |-> Bits8(bs[((k - 1) \div 8) + 1])[((k - 1) % 8) + 1]]

\* the number a run of bits spells, most significant first
RECURSIVE BitsValue(_)
BitsValue(bits) ==
    IF Len(bits) = 0 THEN 0
    ELSE 2 * BitsValue(SubSeq(bits, 1, Len(bits) - 1)) + bits[Len(bits)]

\* base32::decode: None when a character is outside the alphabet, otherwise
\* the first (len * 5) / 8 whole bytes the characters spell
base32_decode_raw(s) ==
    IF \E i \in 1..Len(s) : CharAt(s, i) \notin Base32Chars THEN None
    ELSE LET bits == CharsToBits(s)
             n == (Len(s) * 5) \div 8
         IN  Some([k \in 1..n |-> BitsValue(SubSeq(bits, 8 * (k - 1) + 1, 8 * k))])

\* base32::encode without padding: ceil(len * 8 / 5) characters, the last
\* group filled with zero bits
base32_encode(bs) ==
    LET bits == BytesToBits(bs)
        n == (Len(bs) * 8 + 4) \div 5
        padded == bits \o [i \in 1..(n * 5 - Len(bits)) |-> 0]
    IN  CatRange(LAMBDA k : CharAt(Base32Alphabet,
                                   BitsValue(SubSeq(padded, 5 * (k - 1) + 1, 5 * k)) + 1),
                 1, n, "")

\* commands.rs base32_decode: upper-case, drop ' ' and '-', then decode
base32_decode(input) == base32_decode_raw(StripChars(to_uppercase(input), {" ", "-"}))

\* ------------------------------------------------------------------ random
\* generate_salt: 128 random bits, taken to be different from every salt
\* drawn before; the n-th salt drawn is SALT_SIZE bytes of value n.
generate_salt(n) == [i \in 1..SALT_SIZE |-> n % 256]

\* The values the CSPRNG is let to return for a nonce: NONCE_SIZE equal bytes.
NonceSeeds == {3}
Nonces == {[i \in 1..NONCE_SIZE |-> v] : v \in NonceSeeds}

\* --------------------------------------------------------------------- kdf
\* Argon2id stand-in: a deterministic mix of password and salt into
\* KEY_LENGTH bytes, different for every two (password, salt) pairs the
\* model draws.
derive_key(password, salt) ==
    LET p == SumSeq(StrBytes(password))
    IN  Ok([i \in 1..KEY_LENGTH |-> (p + 31 * salt[((i - 1) % SALT_SIZE) + 1] + i) % 256])

\* derive_key_pair, had it derived both keys from the first salt
derive_key_pair_one_salt(password, sqlcipher_salt, secret_salt) ==
    LET sqlcipher_key == derive_key(password, sqlcipher_salt)
        secret_key == derive_key(password, sqlcipher_salt)
    IN  IF ~sqlcipher_key.ok THEN sqlcipher_key
        ELSE IF ~secret_key.ok THEN secret_key
        ELSE Ok(<<sqlcipher_key.val, secret_key.val>>)

derive_key_pair(password, sqlcipher_salt, secret_salt) ==
    LET sqlcipher_key == derive_key(password, sqlcipher_salt)
        secret_key == derive_key(password, secret_salt)
    IN  IF ~sqlcipher_key.ok THEN sqlcipher_key
        ELSE IF ~secret_key.ok THEN secret_key
        ELSE Ok(<<sqlcipher_key.val, secret_key.val>>)

\* -------------------------------------------------------------------- aead
\* AES-256-GCM stand-in.  The keystream byte at position i depends on key
\* and nonce; the tag binds key, nonce and ciphertext.
KeyStream(mix, i) == (mix + 7 * i) % 256

\* GcmTag, had the tag not been bound to the key
GcmTagKeyless(key, nonce, ct) ==
    [j \in 1..TAG_SIZE |->
        (nonce[((j - 1) % NONCE_SIZE) + 1] + j * SumSeq(ct) + Len(ct)) % 256]

GcmTag(key, nonce, ct) ==
    LET sum == SumSeq(ct)
    IN  [j \in 1..TAG_SIZE |->
            (key[j] + 3 * key[j + TAG_SIZE] + nonce[((j - 1) % NONCE_SIZE) + 1]
             + j * sum + Len(ct)) % 256]

GcmEncrypt(key, nonce, plaintext) ==
    LET mix == SumSeq(key) + SumSeq(nonce)
        ct == [i \in 1..Len(plaintext) |-> (plaintext[i] + KeyStream(mix, i)) % 256]
    IN  ct \o GcmTag(key, nonce, ct)

\* None on an authentication failure
GcmDecrypt(key, nonce, ciphertext) ==
    LET n == Len(ciphertext) - TAG_SIZE
        ct == SubSeq(ciphertext, 1, n)
        tag == SubSeq(ciphertext, n + 1, Len(ciphertext))
        mix == SumSeq(key) + SumSeq(nonce)
    IN  IF tag # GcmTag(key, nonce, ct) THEN None
        ELSE Some([i \in 1..n |-> (ct[i] - KeyStream(mix, i)) % 256])

encrypt_with_nonce(plaintext, key, nonce_bytes) ==
    Ok(nonce_bytes \o GcmEncrypt(key, nonce_bytes, plaintext))

\* decrypt, had it returned the bytes without comparing the tag
decrypt_unauthenticated(encrypted, key) ==
    IF Len(encrypted) < NONCE_SIZE + TAG_SIZE THEN Err("Ciphertext too short")
    ELSE Ok([i \in 1..(Len(encrypted) - NONCE_SIZE - TAG_SIZE) |->
                (encrypted[NONCE_SIZE + i]
                 - KeyStream(SumSeq(key) + SumSeq(SubSeq(encrypted, 1, NONCE_SIZE)), i)) % 256])

\* decrypt, had it asked for more than a nonce and a tag
decrypt_one_more(encrypted, key) ==
    IF Len(encrypted) <= NONCE_SIZE + TAG_SIZE THEN Err("Ciphertext too short")
    ELSE IF ~IsSome(GcmDecrypt(key, SubSeq(encrypted, 1, NONCE_SIZE),
                               SubSeq(encrypted, NONCE_SIZE + 1, Len(encrypted))))
    THEN Err("Decryption failed: authentication error")
    ELSE Ok(Unwrap(GcmDecrypt(key, SubSeq(encrypted, 1, NONCE_SIZE),
                              SubSeq(encrypted, NONCE_SIZE + 1, Len(encrypted)))))

decrypt(encrypted, key) ==
    IF Len(encrypted) < NONCE_SIZE + TAG_SIZE THEN Err("Ciphertext too short")
    ELSE LET nonce_bytes == SubSeq(encrypted, 1, NONCE_SIZE)
             ciphertext == SubSeq(encrypted, NONCE_SIZE + 1, Len(encrypted))
             plaintext == GcmDecrypt(key, nonce_bytes, ciphertext)
         IN  IF ~IsSome(plaintext) THEN Err("Decryption failed: authentication error")
             ELSE Ok(Unwrap(plaintext))

\* ------------------------------------------------------------- the store
\* The vault file is an encrypted database:
\*   key         the whole-file key it was created under (K_db)
\*   tokens      the rows of table tokens, in rowid (insertion) order
\*   migrations  the rows of table migrations
\*   vault_meta  the rows of table vault_meta
EmptyDb(key) == [key |-> key, tokens |-> << >>, migrations |-> {}, vault_meta |-> {}]

\* migrations.rs get_current_version: COALESCE(MAX(version), 0)
get_current_version(db) ==
    IF db.migrations = {} THEN 0
    ELSE CHOOSE v \in {m.version : m \in db.migrations} :
            \A w \in {m.version : m \in db.migrations} : w <= v

\* migrations.rs migrate_v1: the three INSERT OR IGNORE statements
migrate_v1(db, now) ==
    [db EXCEPT
        !.migrations =
            IF \E m \in db.migrations : m.version = 1 THEN db.migrations
            ELSE db.migrations \cup {[version |-> 1, applied_at |-> now]},
        !.vault_meta =
            (IF \E r \in db.vault_meta : r.key = "schema_version" THEN {}
             ELSE {[key |-> "schema_version", value |-> "1"]})
            \cup
            (IF \E r \in db.vault_meta : r.key = "vault_created_at" THEN {}
             ELSE {[key |-> "vault_created_at", value |-> now]})
            \cup db.vault_meta]

\* run_migrations, had it applied v1 on every run with INSERT OR REPLACE
run_migrations_replacing(db, now) ==
    [db EXCEPT
        !.migrations = {m \in db.migrations : m.version # 1}
                       \cup {[version |-> 1, applied_at |-> now]},
        !.vault_meta = {r \in db.vault_meta : r.key \notin {"schema_version", "vault_created_at"}}
                       \cup {[key |-> "schema_version", value |-> "1"],
                             [key |-> "vault_created_at", value |-> now]}]

run_migrations(db, now) ==
    IF get_current_version(db) < SCHEMA_VERSION THEN migrate_v1(db, now) ELSE db

\* set_key, had the metadata probe succeeded under any key
set_key_any(db, key) == Ok(TRUE)

\* db.rs set_key: the metadata probe succeeds only under the file's own key
set_key(db, key) ==
    IF db.key = key THEN Ok(TRUE) ELSE Err("Wrong password or corrupted vault")

\* VaultOpen, had it laid a new database over the file it opens
VaultOpenTruncating(file, sqlcipher_key, secret_key, now) ==
    LET db == IF IsSome(file) THEN Unwrap(file) ELSE EmptyDb(sqlcipher_key)
        keyed == set_key(db, sqlcipher_key)
    IN  IF ~keyed.ok THEN [res |-> keyed, file |-> file]
        ELSE [res |-> Ok([secret_key |-> secret_key]),
              file |-> Some(run_migrations([db EXCEPT !.tokens = << >>], now))]

\* db.rs Vault::create / Vault::open (the two bodies are the same): file is
\* the Option of the database at the path; a missing file is created under
\* the key given.  Returns the handle and the database as left on disk.
VaultOpen(file, sqlcipher_key, secret_key, now) ==
    LET db == IF IsSome(file) THEN Unwrap(file) ELSE EmptyDb(sqlcipher_key)
        keyed == set_key(db, sqlcipher_key)
    IN  IF ~keyed.ok THEN [res |-> keyed, file |-> file]
        ELSE [res |-> Ok([secret_key |-> secret_key]),
              file |-> Some(run_migrations(db, now))]

\* ------------------------------------------------------------- token.rs
\* the columns list_tokens / get_token select, as a Token
RowToken(row) ==
    [id |-> row.id, issuer |-> row.issuer, account |-> row.account,
     algorithm |-> row.algorithm, digits |-> row.digits, token_type |-> row.type,
     period |-> row.period, counter |-> row.counter, icon |-> row.icon,
     sort_order |-> row.sort_order, created_at |-> row.created_at,
     updated_at |-> row.updated_at, last_modified |-> row.last_modified,
     device_id |-> row.device_id, sync_version |-> row.sync_version]

\* ORDER BY sort_order ASC over the rows in rowid order; rows of equal
\* sort_order stay in rowid order
RECURSIVE InsertSorted(_, _)
InsertSorted(sorted, row) ==
    IF Len(sorted) = 0 THEN <<row>>
    ELSE IF Head(sorted).sort_order <= row.sort_order
         THEN <<Head(sorted)>> \o InsertSorted(Tail(sorted), row)
         ELSE <<row>> \o sorted

\* OrderBySortOrder, had the query no ORDER BY: the rows in rowid order
OrderByRowid(rows) == rows

RECURSIVE OrderBySortOrder(_)
OrderBySortOrder(rows) ==
    IF Len(rows) = 0 THEN << >>
    ELSE InsertSorted(OrderBySortOrder(SubSeq(rows, 1, Len(rows) - 1)), rows[Len(rows)])

list_tokens(db) ==
    LET rows == OrderBySortOrder(db.tokens)
    IN  Ok([i \in 1..Len(rows) |-> RowToken(rows[i])])

RowsWithId(db, id) == {i \in 1..Len(db.tokens) : db.tokens[i].id = id}

get_token(db, id) ==
    IF RowsWithId(db, id) = {} THEN Ok(None)
    ELSE Ok(Some(RowToken(db.tokens[CHOOSE i \in RowsWithId(db, id) : TRUE])))

\* get_token_secret, had it returned the ciphertext without opening it
get_token_secret_unopened(db, secret_key, id) ==
    IF RowsWithId(db, id) = {} THEN Err("Token not found: Query returned no rows")
    ELSE LET encrypted == db.tokens[CHOOSE i \in RowsWithId(db, id) : TRUE].secret_encrypted
         IN  Ok(SubSeq(encrypted, NONCE_SIZE + 1, Len(encrypted) - TAG_SIZE))

get_token_secret(db, secret_key, id) ==
    IF RowsWithId(db, id) = {} THEN Err("Token not found: Query returned no rows")
    ELSE LET encrypted == db.tokens[CHOOSE i \in RowsWithId(db, id) : TRUE].secret_encrypted
             plain == decrypt(encrypted, secret_key)
         IN  IF ~plain.ok THEN Err("Failed to decrypt secret: " \o plain.err)
             ELSE plain

\* MaxSortOrder, had it taken the number of rows for the largest position
MaxSortOrderByCount(db) == Len(db.tokens) - 1

\* MaxSortOrder, had it read the sort_order of the row inserted last
MaxSortOrderOfLastRow(db) ==
    IF Len(db.tokens) = 0 THEN 0 - 1 ELSE db.tokens[Len(db.tokens)].sort_order

\* COALESCE(MAX(sort_order), -1)
MaxSortOrder(db) ==
    IF Len(db.tokens) = 0 THEN 0 - 1
    ELSE CHOOSE m \in {db.tokens[i].sort_order : i \in 1..Len(db.tokens)} :
            \A i \in 1..Len(db.tokens) : db.tokens[i].sort_order <= m

\* WrapSecret, had it stored the seed as it is
WrapSecretPlain(secret, secret_key, nonce) == Ok(secret)

\* what add_token stores in column secret_encrypted
WrapSecret(secret, secret_key, nonce) == encrypt_with_nonce(secret, secret_key, nonce)

\* add_token: id is the fresh Uuid, now the clock, nonce the bytes drawn
\* for the envelope.  Returns the Token and the database after the INSERT.
add_token(db, secret_key, new_token, id, now, nonce) ==
    LET encrypted_secret == WrapSecret(new_token.secret, secret_key, nonce)
        max_sort == MaxSortOrder(db)
        row == [id |-> id, issuer |-> new_token.issuer, account |-> new_token.account,
                secret_encrypted |-> encrypted_secret.val,
                algorithm |-> new_token.algorithm, digits |-> new_token.digits,
                type |-> new_token.token_type, period |-> new_token.period,
                counter |-> new_token.counter, icon |-> new_token.icon,
                sort_order |-> max_sort + 1, created_at |-> now, updated_at |-> now,
                last_modified |-> None, device_id |-> None, sync_version |-> None]
    IN  IF ~encrypted_secret.ok
        THEN [res |-> Err("Failed to encrypt secret: " \o encrypted_secret.err), db |-> db]
        ELSE IF RowsWithId(db, id) # {}
        THEN [res |-> Err("Failed to insert token: UNIQUE constraint failed: tokens.id"),
              db |-> db]
        ELSE [res |-> Ok(RowToken(row)),
              db |-> [db EXCEPT !.tokens = Append(db.tokens, row)]]

\* update_token, had its UPDATE no WHERE clause
update_token_every_row(db, id, issuer, account, now) ==
    IF Len(db.tokens) = 0 THEN [res |-> Err("Token not found"), db |-> db]
    ELSE [res |-> Ok(TRUE),
          db |-> [db EXCEPT !.tokens =
                    [i \in 1..Len(db.tokens) |->
                        [db.tokens[i] EXCEPT !.issuer = issuer, !.account = account,
                                             !.updated_at = now]]]]

update_token(db, id, issuer, account, now) ==
    IF RowsWithId(db, id) = {} THEN [res |-> Err("Token not found"), db |-> db]
    ELSE [res |-> Ok(TRUE),
          db |-> [db EXCEPT !.tokens =
                    [i \in 1..Len(db.tokens) |->
                        IF db.tokens[i].id = id
                        THEN [db.tokens[i] EXCEPT !.issuer = issuer, !.account = account,
                                                  !.updated_at = now]
                        ELSE db.tokens[i]]]]

\* DELETE FROM tokens WHERE id = ?1: the remaining rows, in rowid order
RECURSIVE FilterRows(_, _)
FilterRows(rows, id) ==
    IF Len(rows) = 0 THEN << >>
    ELSE IF Head(rows).id = id THEN FilterRows(Tail(rows), id)
    ELSE <<Head(rows)>> \o FilterRows(Tail(rows), id)

\* delete_token, had it reported an id that matches no row
delete_token_strict(db, id) ==
    IF RowsWithId(db, id) = {} THEN [res |-> Err("Token not found"), db |-> db]
    ELSE [res |-> Ok(TRUE), db |-> [db EXCEPT !.tokens = FilterRows(db.tokens, id)]]

delete_token(db, id) ==
    [res |-> Ok(TRUE), db |-> [db EXCEPT !.tokens = FilterRows(db.tokens, id)]]

\* ReorderOne, had it counted the positions from 1
ReorderOneFromOne(rows, i, id, now) ==
    [k \in 1..Len(rows) |->
        IF rows[k].id = id THEN [rows[k] EXCEPT !.sort_order = i + 1, !.updated_at = now]
        ELSE rows[k]]

\* one UPDATE of the reorder loop: position i (counted from 0) for id
ReorderOne(rows, i, id, now) ==
    [k \in 1..Len(rows) |->
        IF rows[k].id = id THEN [rows[k] EXCEPT !.sort_order = i, !.updated_at = now]
        ELSE rows[k]]

RECURSIVE ReorderFrom(_, _, _, _)
ReorderFrom(rows, id_order, i, now) ==
    IF i >= Len(id_order) THEN rows
    ELSE ReorderFrom(ReorderOne(rows, i, id_order[i + 1], now), id_order, i + 1, now)

\* reorder_tokens, had it moved the tokens it was not given behind the given
\* ones
reorder_tokens_closing_up(db, id_order, now) ==
    [res |-> Ok(TRUE),
     db |-> [db EXCEPT !.tokens =
                ReorderFrom([k \in 1..Len(db.tokens) |->
                                [db.tokens[k] EXCEPT !.sort_order = @ + Len(id_order)]],
                            id_order, 0, now)]]

reorder_tokens(db, id_order, now) ==
    [res |-> Ok(TRUE), db |-> [db EXCEPT !.tokens = ReorderFrom(db.tokens, id_order, 0, now)]]

\* increment_counter, had it read the counter before it updated the row
increment_counter_read_first(db, id, now) ==
    IF RowsWithId(db, id) = {} THEN [res |-> Err("Token not found: Query returned no rows"), db |-> db]
    ELSE [res |-> Ok(db.tokens[CHOOSE i \in RowsWithId(db, id) : TRUE].counter),
          db |-> [db EXCEPT !.tokens =
                    [i \in 1..Len(db.tokens) |->
                        IF db.tokens[i].id = id
                        THEN [db.tokens[i] EXCEPT !.counter = @ + 1, !.updated_at = now]
                        ELSE db.tokens[i]]]]

\* increment_counter, had it answered 0 for an id that matches no row
increment_counter_lenient(db, id, now) ==
    IF RowsWithId(db, id) = {} THEN [res |-> Ok(0), db |-> db]
    ELSE LET rows == [i \in 1..Len(db.tokens) |->
                        IF db.tokens[i].id = id
                        THEN [db.tokens[i] EXCEPT !.counter = @ + 1, !.updated_at = now]
                        ELSE db.tokens[i]]
         IN  [res |-> Ok(rows[CHOOSE i \in RowsWithId(db, id) : TRUE].counter),
              db |-> [db EXCEPT !.tokens = rows]]

increment_counter(db, id, now) ==
    IF RowsWithId(db, id) = {}
    THEN [res |-> Err("Token not found: Query returned no rows"), db |-> db]
    ELSE LET rows == [i \in 1..Len(db.tokens) |->
                        IF db.tokens[i].id = id
                        THEN [db.tokens[i] EXCEPT !.counter = @ + 1, !.updated_at = now]
                        ELSE db.tokens[i]]
         IN  [res |-> Ok(rows[CHOOSE i \in RowsWithId(db, id) : TRUE].counter),
              db |-> [db EXCEPT !.tokens = rows]]

\* ------------------------------------------------------------- import.rs
HexDigits == "0123456789ABCDEF"

is_ascii_hexdigit(c) == \E i \in 1..16 : CharAt(HexDigits, i) = UpperChar(c)

HexValue(c) == (CHOOSE i \in 1..16 : CharAt(HexDigits, i) = UpperChar(c)) - 1

\* the bytes urlencoding_decode collects, reading s from position i (from 1)
RECURSIVE DecodeFrom(_, _)
DecodeFrom(s, i) ==
    IF i > Len(s) THEN << >>
    ELSE IF CharAt(s, i) = "%"
         THEN IF i + 2 <= Len(s)
                 /\ is_ascii_hexdigit(CharAt(s, i + 1))
                 /\ is_ascii_hexdigit(CharAt(s, i + 2))
              THEN <<16 * HexValue(CharAt(s, i + 1)) + HexValue(CharAt(s, i + 2))>>
                   \o DecodeFrom(s, i + 3)
              ELSE <<Ord("%")>> \o DecodeFrom(s, i + 1)
    ELSE IF CharAt(s, i) = "+" THEN <<Ord(" ")>> \o DecodeFrom(s, i + 1)
    ELSE <<Ord(CharAt(s, i))>> \o DecodeFrom(s, i + 1)

urlencoding_decode(s) == BytesStr(DecodeFrom(s, 1))

\* str::parse::<u32 / u64>: an optional '+', then one or more digits; None
\* otherwise.  The model's integers end below 2^31, so the inputs drawn
\* never spell a number of more than MaxParseDigits digits and the
\* overflow case of the parse is not reached.
MaxParseDigits == 9

RECURSIVE DigitsValue(_)
DigitsValue(s) ==
    IF Len(s) = 0 THEN 0
    ELSE 10 * DigitsValue(SubSeq(s, 1, Len(s) - 1)) + (Ord(CharAt(s, Len(s))) - 48)

ParseUint(s) ==
    LET d == IF Len(s) > 0 /\ Head(s) = "+" THEN Tail(s) ELSE s
    IN  IF Len(d) = 0 \/ Len(d) > MaxParseDigits
           \/ \E i \in 1..Len(d) : ~IsDigit(CharAt(d, i))
        THEN None
        ELSE Some(DigitsValue(d))

\* the query as the sequence of (lower-cased key, decoded value) pairs;
\* pieces without '=' are dropped
QueryPairs(query) ==
    LET pieces == split(query, "&")
        RECURSIVE Go(_)
        Go(k) == IF k > Len(pieces) THEN << >>
                 ELSE LET kv == split_once(pieces[k], "=")
                      IN  IF ~IsSome(kv) THEN Go(k + 1)
                          ELSE <<<<to_lowercase(Unwrap(kv)[1]),
                                   urlencoding_decode(Unwrap(kv)[2])>>>> \o Go(k + 1)
    IN  Go(1)

\* HashMap::get on the collected pairs: the last value given for the key
ParamGet(pairs, key) ==
    LET hits == {k \in 1..Len(pairs) : pairs[k][1] = key}
    IN  IF hits = {} THEN None
        ELSE Some(pairs[CHOOSE k \in hits : \A j \in hits : j <= k][2])

parse_otpauth_uri(uri) ==
    LET Given(p) == IF IsSome(p) THEN ParseUint(Unwrap(p)) ELSE None
        Fields(token_type, label, split_label, secret, issuer_param, algorithm_param,
               digits_given, period_given, counter_given) ==
            LET issuer == IF IsSome(issuer_param) THEN Unwrap(issuer_param)
                          ELSE IF IsSome(split_label) THEN Unwrap(split_label)[1]
                          ELSE DEFAULT_ISSUER
                account == IF IsSome(split_label) THEN Unwrap(split_label)[2] ELSE label
                digits == IF IsSome(digits_given) THEN Unwrap(digits_given)
                          ELSE DEFAULT_DIGITS
                period == IF IsSome(period_given) THEN Unwrap(period_given)
                          ELSE DEFAULT_PERIOD
                counter == IF IsSome(counter_given) THEN Unwrap(counter_given)
                           ELSE DEFAULT_COUNTER
                Validated(algorithm) ==
                    IF algorithm \notin {"SHA1", "SHA256", "SHA512"}
                    THEN Err("Invalid otpauth URI: unsupported algorithm: " \o algorithm)
                    ELSE IF digits # 6 /\ digits # 8
                    THEN Err("Invalid otpauth URI: unsupported digits: " \o ToString(digits))
                    ELSE IF period = 0 THEN Err("Invalid otpauth URI: period must be > 0")
                    ELSE Ok(Some([issuer |-> issuer, account |-> account,
                                  secret |-> Unwrap(secret), algorithm |-> algorithm,
                                  digits |-> digits, token_type |-> token_type,
                                  period |-> period, counter |-> counter, icon |-> None]))
            IN  IF ~IsSome(secret) THEN Err("Invalid base32 secret")
                ELSE Validated(IF IsSome(algorithm_param)
                               THEN to_uppercase(Unwrap(algorithm_param))
                               ELSE DEFAULT_ALGORITHM)
        Params(token_type, label, params, secret_b32) ==
            IF ~IsSome(secret_b32) THEN Err("Missing URI parameter: secret")
            ELSE Fields(token_type, label, split_once(label, ":"),
                        base32_decode_raw(to_uppercase(Unwrap(secret_b32))),
                        ParamGet(params, "issuer"), ParamGet(params, "algorithm"),
                        Given(ParamGet(params, "digits")), Given(ParamGet(params, "period")),
                        Given(ParamGet(params, "counter")))
        Labelled(token_type, label, params) ==
            Params(token_type, label, params, ParamGet(params, "secret"))
        Typed(token_type, label_query) ==
            IF token_type # TOKEN_TYPE_TOTP /\ token_type # TOKEN_TYPE_HOTP
            THEN Err("Unknown token type: " \o token_type)
            ELSE IF ~IsSome(label_query)
            THEN Err("Invalid otpauth URI: missing query parameters")
            ELSE Labelled(token_type, urlencoding_decode(Unwrap(label_query)[1]),
                          QueryPairs(Unwrap(label_query)[2]))
        Schemed(type_rest) ==
            IF ~IsSome(type_rest) THEN Err("Invalid otpauth URI: missing token type")
            ELSE Typed(Unwrap(type_rest)[1], split_once(Unwrap(type_rest)[2], "?"))
    IN  IF ~starts_with(uri, OTPAUTH_SCHEME) THEN Err("Invalid otpauth URI: " \o uri)
        ELSE Schemed(split_once(SubSeq(uri, OTPAUTH_SCHEME_LEN + 1, Len(uri)), "/"))

\* URIs the import commands are called with
UriTotp == "otpauth://totp/Site:me?secret=MFRA&digits=8&period=60"
UriHotp == "otpauth://hotp/AWS:admin?secret=ME&counter=1"
UriBad == "https://example.com"

\* every URI a command of the model is given, directly or inside a blob
ModelUris == {UriTotp, UriHotp, UriBad}

\* ------------------------------------------------------------- export.rs
Unreserved == "ABCDEFGHIJKLMNOPQRSTUVWXYZabcdefghijklmnopqrstuvwxyz0123456789-_.~"

IsUnreserved(c) == \E i \in 1..Len(Unreserved) : CharAt(Unreserved, i) = c

\* format!("%{:02X}", byte)
PercentByte(b) == "%" \o CharAt(HexDigits, (b \div 16) + 1) \o CharAt(HexDigits, (b % 16) + 1)

EncodeChar(c) ==
    IF IsUnreserved(c) THEN c
    ELSE IF c = " " THEN "%20"
    ELSE IF c = ":" THEN "%3A"
    ELSE IF c = "@" THEN "%40"
    ELSE PercentByte(Ord(c))

urlencoding_encode(s) == MapChars(EncodeChar, s)

eq_ignore_ascii_case(a, b) == to_lowercase(a) = to_lowercase(b)

\* the URI export_uris writes for one token and its unwrapped secret
TokenUri(token, secret) ==
    LET query ==
            "secret=" \o base32_encode(secret)
            \o "&algorithm=" \o token.algorithm
            \o "&digits=" \o ToString(token.digits)
            \o "&issuer=" \o urlencoding_encode(token.issuer)
            \o (IF eq_ignore_ascii_case(token.token_type, "totp")
                THEN "&period=" \o ToString(token.period)
                ELSE IF eq_ignore_ascii_case(token.token_type, "hotp")
                THEN "&counter=" \o ToString(token.counter)
                ELSE "&period=" \o ToString(token.period)
                     \o "&counter=" \o ToString(token.counter))
    IN  OTPAUTH_SCHEME \o token.token_type \o "/" \o urlencoding_encode(token.issuer)
        \o ":" \o urlencoding_encode(token.account) \o "?" \o query

export_uris(db, secret_key) ==
    LET tokens == list_tokens(db).val
        RECURSIVE Go(_)
        Go(k) == IF k > Len(tokens) THEN Ok(<< >>)
                 ELSE LET secret == get_token_secret(db, secret_key, tokens[k].id)
                          more == Go(k + 1)
                      IN  IF ~secret.ok THEN secret
                          ELSE IF ~more.ok THEN more
                          ELSE Ok(<<TokenUri(tokens[k], secret.val)>> \o more.val)
    IN  Go(1)

\* serde_json::to_vec of a Vec<String>: ["..","..", ...] with '"' and '\'
\* escaped
JsonEscape(s) ==
    MapChars(LAMBDA c : IF c = "\"" THEN "\\\"" ELSE IF c = "\\" THEN "\\\\" ELSE c, s)

JsonOfStrings(strs) ==
    StrBytes("[" \o CatRange(LAMBDA k : (IF k > 1 THEN "," ELSE "")
                                        \o "\"" \o JsonEscape(strs[k]) \o "\"",
                             1, Len(strs), "")
             \o "]")

\* serde_json::from_slice into a Vec<String>, for the JSON JsonOfStrings
\* writes: no white space, and '\"' and '\\' the only escapes; None for
\* anything else.
\* number of backslashes that end right before position i, counted back to lo
BackslashRun(t, lo, i) ==
    IF i <= lo \/ CharAt(t, i - 1) # "\\" THEN 0
    ELSE CHOOSE k \in 1..(i - lo) :
            /\ \A j \in (i - k)..(i - 1) : CharAt(t, j) = "\\"
            /\ (k = i - lo \/ CharAt(t, i - k - 1) # "\\")

\* the character at i is the second character of an escape pair
IsEscaped(t, lo, i) == BackslashRun(t, lo, i) % 2 = 1

\* reads the string whose body starts at lo (after the opening quote): the
\* string and the position after the closing quote, or None
JsonReadString(t, lo) ==
    LET Closed(close) ==
            IF \E j \in lo..(close - 1) :
                  IsEscaped(t, lo, j) /\ CharAt(t, j) \notin {"\"", "\\"}
            THEN None
            ELSE Some(<<CatRange(LAMBDA j : IF CharAt(t, j) = "\\" /\ ~IsEscaped(t, lo, j)
                                            THEN "" ELSE CharAt(t, j),
                                 lo, close - 1, ""),
                        close + 1>>)
        Quoted(quotes) ==
            IF quotes = {} THEN None
            ELSE Closed(CHOOSE j \in quotes : \A q \in quotes : j <= q)
    IN  Quoted({j \in lo..Len(t) : CharAt(t, j) = "\"" /\ ~IsEscaped(t, lo, j)})

RECURSIVE JsonReadItems(_, _, _)
JsonReadItems(t, i, acc) ==
    LET Item(item, j) ==
            IF j = Len(t) /\ CharAt(t, j) = "]" THEN Some(Append(acc, item))
            ELSE IF j < Len(t) /\ CharAt(t, j) = ","
            THEN JsonReadItems(t, j + 1, Append(acc, item))
            ELSE None
        Read(str) == IF ~IsSome(str) THEN None ELSE Item(Unwrap(str)[1], Unwrap(str)[2])
    IN  IF i > Len(t) \/ CharAt(t, i) # "\"" THEN None
        ELSE Read(JsonReadString(t, i + 1))

StringsOfJson(bytes) ==
    LET Text(t) ==
            IF Len(t) < 2 \/ CharAt(t, 1) # "[" THEN None
            ELSE IF t = "[]" THEN Some(<< >>)
            ELSE JsonReadItems(t, 2, << >>)
    IN  IF \E i \in 1..Len(bytes) : bytes[i] < 32 \/ bytes[i] > 126 THEN None
        ELSE Text(BytesStr(bytes))

\* export_encrypted: salt and nonce are the bytes drawn for the blob
export_encrypted(db, secret_key, export_password, salt, nonce) ==
    LET Encrypted(encrypted) ==
            IF ~encrypted.ok THEN encrypted ELSE Ok(salt \o encrypted.val)
        Keyed(uris, key) ==
            IF ~key.ok THEN key
            ELSE Encrypted(encrypt_with_nonce(JsonOfStrings(uris), key.val, nonce))
        Exported(uris) ==
            IF ~uris.ok THEN uris ELSE Keyed(uris.val, derive_key(export_password, salt))
    IN  Exported(export_uris(db, secret_key))

\* the first part of import_encrypted: the URI list inside the blob
BackupUris(data, password) ==
    LET Parsed(uris) ==
            IF ~IsSome(uris) THEN Err("Serialization error: invalid JSON")
            ELSE Ok(Unwrap(uris))
        Decrypted(json) == IF ~json.ok THEN json ELSE Parsed(StringsOfJson(json.val))
        Keyed(key) ==
            IF ~key.ok THEN key
            ELSE Decrypted(decrypt(SubSeq(data, EXPORT_SALT_SIZE + 1, Len(data)), key.val))
    IN  IF Len(data) < EXPORT_SALT_SIZE THEN Err("Invalid export file")
        ELSE Keyed(derive_key(password, SubSeq(data, 1, EXPORT_SALT_SIZE)))

ExportPasswords == {"xp", "xq"}

\* an encrypted export of the URI list, as export_encrypted builds it
ExportBlob(uris, password) ==
    generate_salt(200)
    \o encrypt_with_nonce(JsonOfStrings(uris), derive_key(password, generate_salt(200)).val,
                          [i \in 1..NONCE_SIZE |-> 5]).val

\* byte strings vault_import_encrypted is called with: too short for a salt,
\* a backup of one URI, a backup whose second URI does not parse
ImportBlobs ==
    { <<1, 2, 3>>,
      ExportBlob(<<UriTotp>>, "xp"),
      ExportBlob(<<UriTotp, UriBad>>, "xp") }

\* ------------------------------------------- backups of another vault
\* A second vault, with keys of its own, is filled and exported; the blobs
\* are imported into the vault of VaultInit.
SourceDbKey == [i \in 1..KEY_LENGTH |-> 68]
SourceSecretKey == [i \in 1..KEY_LENGTH |-> 69]

SourceTotp ==
    [issuer |-> "My Co", account |-> "a@b", secret |-> <<1, 2>>, algorithm |-> "SHA256",
     digits |-> 8, token_type |-> "totp", period |-> 60, counter |-> 0, icon |-> None]

SourceHotp ==
    [issuer |-> "AWS", account |-> "admin", secret |-> <<3>>, algorithm |-> "SHA1",
     digits |-> 6, token_type |-> "hotp", period |-> 30, counter |-> 5, icon |-> None]

\* the token token_add stores for the input "Odd" of AddInputs
SourceOdd ==
    [issuer |-> "Odd", account |-> "", secret |-> <<97, 98>>, algorithm |-> "SHA256",
     digits |-> 7, token_type |-> "totp", period |-> 0, counter |-> 0, icon |-> Some("key")]

\* the tokens the source vault is filled with, in the order of the adds
SourceFills ==
    { << >>, <<SourceTotp>>, <<SourceTotp, SourceHotp>>, <<SourceHotp, SourceOdd>> }

\* the source vault after the first k adds of fill
RECURSIVE SourceFilled(_, _)
SourceFilled(fill, k) ==
    IF k = 0 THEN Unwrap(VaultOpen(None, SourceDbKey, SourceSecretKey, 0).file)
    ELSE add_token(SourceFilled(fill, k - 1), SourceSecretKey, fill[k], k, 0,
                   [i \in 1..NONCE_SIZE |-> 7]).db

\* the source vault: filled, and its listing turned round by reorder_tokens
SourceDb(fill) ==
    reorder_tokens(SourceFilled(fill, Len(fill)),
                   [i \in 1..Len(fill) |-> Len(fill) + 1 - i], 0).db

\* the blob export_encrypted writes for the source vault, empty when the
\* export fails
ExportOf(fill, export_password) ==
    LET Written(exported) == IF exported.ok THEN exported.val ELSE << >>
    IN  Written(export_encrypted(SourceDb(fill), SourceSecretKey, export_password,
                                 generate_salt(200), [i \in 1..NONCE_SIZE |-> 5]))

\* the blobs of the exports that succeeded
SourceBlobs == {ExportOf(fill, "xp") : fill \in SourceFills} \ { << >> }

\* a salt followed by 27 bytes, one fewer than a nonce and a tag
ShortEnvelope == generate_salt(200) \o [i \in 1..(NONCE_SIZE + TAG_SIZE - 1) |-> i]

\* byte strings import_encrypted is called with
BackupBlobs == ImportBlobs \cup SourceBlobs \cup {ShortEnvelope}

\* BackupUris tabulated over the blobs and passwords of the model
BackupTable == [data \in BackupBlobs, password \in ExportPasswords |->
                    BackupUris(data, password)]

\* ------------------------------------------ tokens and URIs of SpecUri
\* NewToken values whose fields are all supported: a TOTP and an HOTP token
\* as the tests add them, an HOTP token with a period of its own, a TOTP
\* token with a counter, an issuer with ':' in it
UriTokens ==
    { [issuer |-> "My Co", account |-> "a@b", secret |-> <<1, 2>>, algorithm |-> "SHA256",
       digits |-> 8, token_type |-> "totp", period |-> 60, counter |-> 0, icon |-> None],
      [issuer |-> "AWS", account |-> "admin", secret |-> <<3>>, algorithm |-> "SHA1",
       digits |-> 6, token_type |-> "hotp", period |-> 30, counter |-> 5, icon |-> None],
      [issuer |-> "Bank", account |-> "me", secret |-> <<4>>, algorithm |-> "SHA512",
       digits |-> 6, token_type |-> "hotp", period |-> 60, counter |-> 2, icon |-> None],
      [issuer |-> "Mail", account |-> "me", secret |-> <<5>>, algorithm |-> "SHA1",
       digits |-> 8, token_type |-> "totp", period |-> 30, counter |-> 3, icon |-> None],
      [issuer |-> "a:b", account |-> "c", secret |-> <<6, 7>>, algorithm |-> "SHA1",
       digits |-> 6, token_type |-> "totp", period |-> 30, counter |-> 0, icon |-> None] }

\* what a URI gives for digits and for period: nothing, or the text after '='
DigitsGiven == {None, Some("6"), Some("8"), Some("7"), Some("abc")}
PeriodGiven == {None, Some("30"), Some("45"), Some("0"), Some("abc")}

\* a TOTP URI with the given digits and period
ProbeUri(digits, period) ==
    "otpauth://totp/Site:me?secret=MFRA"
    \o (IF IsSome(digits) THEN "&digits=" \o Unwrap(digits) ELSE "")
    \o (IF IsSome(period) THEN "&period=" \o Unwrap(period) ELSE "")

ProbeUris == {ProbeUri(digits, period) : digits \in DigitsGiven, period \in PeriodGiven}

\* the URIs export_uris writes in the model: for the tokens of the source
\* vaults, for those of UriTokens and for the tokens imported from ProbeUris
WrittenUris ==
    { "otpauth://totp/My%20Co:a%40b?secret=AEBA&algorithm=SHA256&digits=8&issuer=My%20Co&period=60",
      "otpauth://hotp/AWS:admin?secret=AM&algorithm=SHA1&digits=6&issuer=AWS&counter=5",
      "otpauth://totp/Odd:?secret=MFRA&algorithm=SHA256&digits=7&issuer=Odd&period=0",
      "otpauth://hotp/Bank:me?secret=AQ&algorithm=SHA512&digits=6&issuer=Bank&counter=2",
      "otpauth://totp/Mail:me?secret=AU&algorithm=SHA1&digits=8&issuer=Mail&period=30",
      "otpauth://totp/a%3Ab:c?secret=AYDQ&algorithm=SHA1&digits=6&issuer=a%3Ab&period=30",
      "otpauth://totp/Site:me?secret=MFRA&algorithm=SHA1&digits=6&issuer=Site&period=30",
      "otpauth://totp/Site:me?secret=MFRA&algorithm=SHA1&digits=8&issuer=Site&period=30",
      "otpauth://totp/Site:me?secret=MFRA&algorithm=SHA1&digits=6&issuer=Site&period=45",
      "otpauth://totp/Site:me?secret=MFRA&algorithm=SHA1&digits=8&issuer=Site&period=45" }

\* parse_otpauth_uri tabulated over the URIs of the model
ParsedUris ==
    [uri \in ModelUris \cup ProbeUris \cup WrittenUris |-> parse_otpauth_uri(uri)]

\* the call parse_otpauth_uri(uri)? of import_uris
ParseUri(uri) == ParsedUris[uri]

\* import_uris: the URIs are taken in order; the first id drawn is first_id
\* and nonces[k] is the nonce drawn for the k-th token added.  Returns the
\* count or the first error, and the database as the loop left it.
RECURSIVE ImportFrom(_, _, _, _, _, _, _)
ImportFrom(db, secret_key, uris, k, count, first_id, env) ==
    LET Added(added) ==
            IF ~added.res.ok THEN [res |-> added.res, db |-> added.db]
            ELSE ImportFrom(added.db, secret_key, uris, k + 1, count + 1, first_id, env)
        Parsed(parsed) ==
            IF ~parsed.ok THEN [res |-> parsed, db |-> db]
            ELSE IF ~IsSome(parsed.val)
            THEN ImportFrom(db, secret_key, uris, k + 1, count, first_id, env)
            ELSE Added(add_token(db, secret_key, Unwrap(parsed.val), first_id + count,
                                 env.now, env.nonces[count + 1]))
    IN  IF k > Len(uris) THEN [res |-> Ok(count), db |-> db]
        ELSE Parsed(ParseUri(uris[k]))

\* import_uris, had it run inside one transaction: a batch that fails leaves
\* nothing behind
import_uris_atomic(db, secret_key, uris, first_id, env) ==
    IF ImportFrom(db, secret_key, uris, 1, 0, first_id, env).res.ok
    THEN ImportFrom(db, secret_key, uris, 1, 0, first_id, env)
    ELSE [res |-> ImportFrom(db, secret_key, uris, 1, 0, first_id, env).res, db |-> db]

import_uris(db, secret_key, uris, first_id, env) ==
    ImportFrom(db, secret_key, uris, 1, 0, first_id, env)


\* lines 27-41 of import_encrypted
BackupOf(data, password) == BackupTable[data, password]

\* import.rs import_encrypted
import_encrypted(db, secret_key, data, password, first_id, env) ==
    LET Listed(uris) ==
            IF ~uris.ok THEN [res |-> uris, db |-> db]
            ELSE import_uris(db, secret_key, uris.val, first_id, env)
    IN  Listed(BackupOf(data, password))

\* ------------------------------------------------------- hotp.rs / totp.rs
Panic(msg) == [ok |-> FALSE, err |-> msg, panic |-> TRUE]

IsPanic(r) == "panic" \in DOMAIN r

HashLen(algorithm) ==
    IF algorithm = "SHA1" THEN 20 ELSE IF algorithm = "SHA256" THEN 32 ELSE 64

\* u64::to_be_bytes, for a counter below 2^31 (the four high bytes are 0)
to_be_bytes(counter) ==
    [i \in 1..8 |-> IF i <= 4 THEN 0 ELSE (counter \div Pow(256, 8 - i)) % 256]

\* the secrets of the RFC 4226 and RFC 6238 test vectors
RfcSecret(algorithm) ==
    IF algorithm = "SHA1" THEN StrBytes("12345678901234567890")
    ELSE IF algorithm = "SHA256" THEN StrBytes("12345678901234567890123456789012")
    ELSE StrBytes("1234567890123456789012345678901234567890123456789012345678901234")

\* HMAC-SHA-1, HMAC-SHA-256 and HMAC-SHA-512 (RFC 2104, FIPS 180-4) of the
\* eight counter bytes under RfcSecret(algorithm), for the counters of the
\* test vectors
RfcHmacs ==
    { [algorithm |-> "SHA1", counter |-> 0,
       mac |-> <<204, 147, 207, 24, 80, 141, 148, 147, 76, 100, 182, 93, 139, 167, 102, 127,
                183, 205, 228, 176>>],
      [algorithm |-> "SHA1", counter |-> 1,
       mac |-> <<117, 164, 138, 25, 212, 203, 225, 0, 100, 78, 138, 193, 57, 126, 234, 116,
                122, 45, 51, 171>>],
      [algorithm |-> "SHA1", counter |-> 2,
       mac |-> <<11, 172, 183, 250, 8, 47, 239, 48, 120, 34, 17, 147, 139, 193, 197, 231,
                4, 22, 255, 68>>],
      [algorithm |-> "SHA1", counter |-> 3,
       mac |-> <<102, 194, 130, 39, 208, 58, 45, 85, 41, 38, 47, 240, 22, 161, 230, 239,
                118, 85, 126, 206>>],
      [algorithm |-> "SHA1", counter |-> 4,
       mac |-> <<169, 4, 201, 0, 166, 75, 53, 144, 152, 116, 179, 62, 97, 197, 147, 138,
                142, 21, 237, 28>>],
      [algorithm |-> "SHA1", counter |-> 5,
       mac |-> <<163, 126, 120, 61, 123, 114, 51, 192, 131, 212, 246, 41, 38, 199, 162, 95,
                35, 141, 3, 22>>],
      [algorithm |-> "SHA1", counter |-> 6,
       mac |-> <<188, 156, 210, 133, 97, 4, 44, 131, 242, 25, 50, 77, 60, 96, 114, 86,
                192, 50, 114, 174>>],
      [algorithm |-> "SHA1", counter |-> 7,
       mac |-> <<164, 251, 150, 12, 11, 192, 110, 30, 171, 184, 4, 229, 179, 151, 205, 196,
                180, 85, 150, 250>>],
      [algorithm |-> "SHA1", counter |-> 8,
       mac |-> <<27, 60, 137, 246, 94, 108, 158, 136, 48, 18, 5, 40, 35, 68, 63, 4,
                139, 67, 50, 219>>],
      [algorithm |-> "SHA1", counter |-> 9,
       mac |-> <<22, 55, 64, 152, 9, 166, 121, 220, 105, 130, 7, 49, 12, 140, 127, 192,
                114, 144, 217, 229>>],
      [algorithm |-> "SHA256", counter |-> 1,
       mac |-> <<57, 37, 20, 201, 221, 65, 101, 212, 112, 148, 86, 6, 44, 120, 224, 78,
                22, 230, 135, 24, 81, 89, 81, 51, 59, 219, 139, 38, 202, 163, 5, 60>>],
      [algorithm |-> "SHA512", counter |-> 1,
       mac |-> <<111, 118, 243, 36, 35, 12, 239, 218, 29, 63, 101, 48, 154, 11, 173, 179,
                110, 252, 233, 82, 138, 218, 100, 150, 125, 113, 228, 233, 215, 76, 74, 163,
                127, 231, 101, 15, 147, 26, 184, 109, 220, 204, 45, 56, 150, 45, 114, 14,
                230, 38, 162, 15, 235, 49, 27, 72, 90, 146, 227, 187, 7, 150, 223, 40>>],
      [algorithm |-> "SHA1", counter |-> 37037036,
       mac |-> <<39, 140, 2, 229, 54, 16, 248, 76, 64, 189, 145, 53, 172, 212, 16, 16,
                18, 65, 10, 20>>],
      [algorithm |-> "SHA256", counter |-> 37037036,
       mac |-> <<78, 237, 114, 152, 100, 82, 93, 119, 19, 38, 198, 4, 155, 200, 133, 98,
                159, 184, 129, 62, 187, 65, 126, 87, 4, 223, 2, 53, 135, 147, 240, 86>>],
      [algorithm |-> "SHA512", counter |-> 37037036,
       mac |-> <<179, 56, 18, 80, 38, 13, 106, 158, 129, 26, 229, 141, 250, 64, 103, 5,
                227, 140, 128, 76, 151, 82, 141, 90, 126, 216, 238, 83, 51, 49, 248, 196,
                60, 195, 69, 73, 17, 173, 29, 39, 97, 249, 56, 1, 112, 192, 177, 128,
                166, 87, 227, 169, 68, 199, 150, 224, 93, 9, 242, 209, 99, 11, 117, 5>>],
      [algorithm |-> "SHA1", counter |-> 37037037,
       mac |-> <<176, 9, 43, 33, 208, 72, 175, 32, 157, 160, 161, 221, 212, 152, 173, 232,
                167, 148, 135, 237>>],
      [algorithm |-> "SHA256", counter |-> 37037037,
       mac |-> <<203, 72, 247, 239, 92, 217, 143, 109, 123, 252, 179, 26, 231, 69, 143, 246,
                146, 160, 21, 119, 98, 5, 222, 126, 26, 191, 255, 41, 214, 212, 138, 157>>],
      [algorithm |-> "SHA512", counter |-> 37037037,
       mac |-> <<1, 113, 62, 213, 158, 73, 148, 138, 79, 15, 255, 183, 70, 107, 174, 186,
                198, 99, 98, 217, 7, 100, 165, 162, 61, 247, 97, 99, 110, 21, 53, 196,
                75, 99, 83, 57, 236, 0, 167, 137, 184, 202, 69, 205, 61, 114, 122, 205,
                107, 153, 80, 71, 84, 127, 111, 104, 173, 198, 241, 106, 116, 54, 195, 49>>],
      [algorithm |-> "SHA1", counter |-> 41152263,
       mac |-> <<144, 124, 209, 169, 17, 101, 100, 236, 185, 213, 209, 120, 3, 37, 242, 70,
                23, 63, 231, 3>>],
      [algorithm |-> "SHA256", counter |-> 41152263,
       mac |-> <<59, 239, 184, 130, 28, 174, 249, 223, 78, 5, 121, 13, 160, 150, 97, 99,
                244, 227, 143, 238, 231, 247, 31, 205, 40, 156, 61, 228, 141, 52, 134, 217>>],
      [algorithm |-> "SHA512", counter |-> 41152263,
       mac |-> <<135, 208, 207, 181, 212, 233, 104, 215, 217, 4, 26, 92, 242, 29, 215, 212,
                96, 112, 87, 132, 0, 79, 2, 68, 237, 185, 128, 4, 230, 207, 153, 66,
                172, 229, 57, 214, 33, 201, 125, 192, 251, 117, 246, 241, 13, 100, 175, 31,
                9, 236, 174, 131, 234, 127, 18, 19, 199, 250, 24, 125, 250, 246, 185, 56>>],
      [algorithm |-> "SHA1", counter |-> 66666666,
       mac |-> <<37, 163, 38, 211, 31, 195, 102, 36, 76, 173, 5, 73, 118, 2, 12, 123,
                86, 177, 61, 95>>],
      [algorithm |-> "SHA256", counter |-> 66666666,
       mac |-> <<164, 232, 234, 187, 229, 73, 173, 250, 101, 64, 137, 69, 169, 40, 44, 185,
                63, 57, 79, 6, 192, 212, 241, 34, 38, 9, 99, 100, 27, 195, 171, 226>>],
      [algorithm |-> "SHA512", counter |-> 66666666,
       mac |-> <<18, 155, 170, 115, 140, 250, 21, 101, 162, 66, 151, 35, 123, 206, 40, 38,
                113, 255, 110, 38, 23, 84, 235, 112, 17, 225, 231, 91, 210, 85, 91, 50,
                99, 19, 20, 42, 31, 159, 226, 243, 29, 156, 230, 204, 149, 211, 177, 106,
                13, 238, 86, 242, 73, 47, 47, 118, 136, 87, 2, 217, 139, 250, 220, 147>>],
      [algorithm |-> "SHA1", counter |-> 666666666,
       mac |-> <<171, 7, 233, 126, 44, 18, 120, 118, 157, 188, 215, 87, 131, 170, 189, 231,
                94, 216, 85, 10>>],
      [algorithm |-> "SHA256", counter |-> 666666666,
       mac |-> <<19, 99, 204, 14, 227, 85, 127, 9, 46, 91, 85, 234, 61, 219, 6, 188,
                210, 15, 6, 60, 227, 147, 204, 246, 112, 5, 158, 60, 164, 73, 65, 248>>],
      [algorithm |-> "SHA512", counter |-> 666666666,
       mac |-> <<86, 34, 152, 160, 42, 241, 62, 117, 34, 18, 122, 222, 227, 220, 102, 120,
                213, 54, 105, 202, 43, 112, 22, 24, 105, 104, 249, 169, 193, 79, 81, 209,
                231, 9, 139, 169, 18, 147, 160, 27, 95, 59, 171, 66, 7, 162, 175, 92,
                227, 50, 164, 95, 44, 47, 242, 185, 136, 90, 164, 47, 246, 28, 180, 38>>] }

RfcHmacsOf(algorithm, secret, msg) ==
    {e \in RfcHmacs : /\ e.algorithm = algorithm
                      /\ to_be_bytes(e.counter) = msg
                      /\ RfcSecret(algorithm) = secret}

\* Hmac::<D>::new_from_slice(secret), update(msg), finalize(): the HMAC of
\* the standard for the inputs of the test vectors; for other inputs a
\* stand-in, HashLen(algorithm) bytes mixed from key and message
Hmac(algorithm, secret, msg) ==
    IF RfcHmacsOf(algorithm, secret, msg) # {}
    THEN (CHOOSE e \in RfcHmacsOf(algorithm, secret, msg) : TRUE).mac
    ELSE [i \in 1..HashLen(algorithm) |->
            (SumSeq(secret) * (i + 2) + SumSeq([k \in 1..Len(msg) |-> msg[k] * (k + i)])
             + 11 * i * i + HashLen(algorithm)) % 256]

\* format!("{:0>width$}", otp)
RECURSIVE ZeroPad(_, _)
ZeroPad(str, width) == IF Len(str) >= width THEN str ELSE ZeroPad("0" \o str, width)

\* hotp::generate, had it formatted the value without the zero padding
hotp_generate_unpadded(secret, counter, digits, algorithm) ==
    IF digits \notin SUPPORTED_DIGITS
    THEN Panic("unsupported digit count " \o ToString(digits) \o ": must be 6 or 8")
    ELSE LET hmac_result == Hmac(algorithm, secret, to_be_bytes(counter))
             offset == hmac_result[Len(hmac_result)] % 16
             binary == (hmac_result[offset + 1] % 128) * 16777216
                       + hmac_result[offset + 2] * 65536
                       + hmac_result[offset + 3] * 256
                       + hmac_result[offset + 4]
         IN  Ok(ToString(binary % Pow(10, digits)))

\* hotp::generate, had it taken the offset from the first byte of the HMAC
hotp_generate_offset_first(secret, counter, digits, algorithm) ==
    IF digits \notin SUPPORTED_DIGITS
    THEN Panic("unsupported digit count " \o ToString(digits) \o ": must be 6 or 8")
    ELSE LET hmac_result == Hmac(algorithm, secret, to_be_bytes(counter))
             offset == hmac_result[1] % 16
             binary == (hmac_result[offset + 1] % 128) * 16777216
                       + hmac_result[offset + 2] * 65536
                       + hmac_result[offset + 3] * 256
                       + hmac_result[offset + 4]
         IN  Ok(ZeroPad(ToString(binary % Pow(10, digits)), digits))

\* hotp::generate; algorithm is "SHA1", "SHA256" or "SHA512"
hotp_generate(secret, counter, digits, algorithm) ==
    IF digits \notin SUPPORTED_DIGITS
    THEN Panic("unsupported digit count " \o ToString(digits) \o ": must be 6 or 8")
    ELSE LET hmac_result == Hmac(algorithm, secret, to_be_bytes(counter))
             offset == hmac_result[Len(hmac_result)] % 16
             binary == (hmac_result[offset + 1] % 128) * 16777216
                       + hmac_result[offset + 2] * 65536
                       + hmac_result[offset + 3] * 256
                       + hmac_result[offset + 4]
             otp == binary % Pow(10, digits)
         IN  Ok(ZeroPad(ToString(otp), digits))

\* totp::generate, had it counted the steps begun rather than the steps
\* completed
totp_generate_rounding_up(secret, time, period, digits, algorithm) ==
    IF period = 0 THEN Panic("attempt to divide by zero")
    ELSE hotp_generate(secret, (time + period - 1) \div period, digits, algorithm)

\* totp::generate
totp_generate(secret, time, period, digits, algorithm) ==
    IF period = 0 THEN Panic("attempt to divide by zero")
    ELSE hotp_generate(secret, time \div period, digits, algorithm)

\* time_remaining, had it returned 0 at the start of a step
time_remaining_from_zero(time, period) ==
    IF period = 0 THEN Panic("attempt to calculate the remainder with a divisor of zero")
    ELSE Ok((period - (time % period)) % period)

time_remaining(time, period) ==
    IF period = 0 THEN Panic("attempt to calculate the remainder with a divisor of zero")
    ELSE Ok(period - (time % period))

\* commands.rs parse_algorithm
parse_algorithm(s) ==
    IF s \in {"SHA1", "SHA256", "SHA512"} THEN Ok(s)
    ELSE Err("Unsupported algorithm: " \o s)

\* ------------------------------------------------------------------ inputs
\* the password the owner creates the vault with, and the passwords
\* vault_unlock is tried with
OwnerPassword == "pw-a"

Passwords == {OwnerPassword, "pw-b"}

\* token ids the commands are called with (stored or not)
Ids == 1..MaxWrites

\* AddTokenInput values token_add is called with: a valid HOTP token, a
\* token whose digits and period no generator supports, a secret that is
\* not Base32
AddInputs ==
    { [issuer |-> "GitHub", account |-> "user", secret |-> "ME", algorithm |-> "SHA1",
       digits |-> 6, token_type |-> "hotp", period |-> 30, counter |-> 0, icon |-> None],
      [issuer |-> "Odd", account |-> "", secret |-> "mf-ra", algorithm |-> "SHA256",
       digits |-> 7, token_type |-> "totp", period |-> 0, counter |-> 0,
       icon |-> Some("key")],
      [issuer |-> "Junk", account |-> "j", secret |-> "M!", algorithm |-> "SHA1",
       digits |-> 6, token_type |-> "totp", period |-> 30, counter |-> 0, icon |-> None] }

\* URI lists vault_import_uris is called with
UriBatches == { <<UriTotp>>, <<UriTotp, UriBad>>, <<UriBad, UriTotp>> }

\* id lists token_reorder is called with: every list of distinct ids
RECURSIVE SeqsUpTo(_)
SeqsUpTo(n) ==
    IF n = 0 THEN { << >> }
    ELSE SeqsUpTo(n - 1) \cup {Append(q, i) : q \in SeqsUpTo(n - 1), i \in Ids}

ReorderInputs ==
    {q \in SeqsUpTo(MaxWrites) : \A i, j \in 1..Len(q) : i # j => q[i] # q[j]}

UpdateInputs == { <<"Forge", "new">> }

\* -------------------------------------------------------------------- state
VARIABLES
    vaultFile,     \* Option of the database in keyforge.vault
    saltsFile,     \* Option of the VaultSalts in keyforge.salts
    vault,         \* AppState.vault: Option of the handle [secret_key]
    vault_path,    \* AppState.vault_path
    salts,         \* AppState.salts
    token_cache,   \* AppState.token_cache: Option of the cached listing
    poisoned,      \* the mutex around AppState.vault is poisoned
    clock,         \* the latest time a command has read from the system clock
    next_id,       \* the next Uuid add_token draws
    writes,        \* number of writes made to the token table
    seeds,         \* seeds[id]: the seed the token id was added with
    acked,         \* acked[id]: the largest value token_increment_counter has
                   \* returned for the token id (0: none yet)
    salt_draws,    \* number of salts drawn that the files or the state keep
    last,          \* the command that ran last and what it returned
    calls          \* the commands in flight, when calls overlap

vars == <<vaultFile, saltsFile, vault, vault_path, salts, token_cache, poisoned,
          clock, next_id, writes, seeds, acked, salt_draws, last, calls>>

\* no call in flight and no result waiting
Idle == [op |-> "idle", res |-> Ok(TRUE)]

\* no calls overlap: every command runs from its first line to its return
NoCalls == << >>

\* no token_increment_counter has returned yet
NoAcks == [id \in Ids |-> 0]

VAULT_PATH == "com.keyforge.app/keyforge.vault"

\* AppState::new, with no vault on disk
Init ==
    /\ vaultFile = None
    /\ saltsFile = None
    /\ vault = None
    /\ vault_path = None
    /\ salts = None
    /\ token_cache = None
    /\ poisoned = FALSE
    /\ clock = 0
    /\ next_id = 1
    /\ writes = 0
    /\ seeds = << >>
    /\ acked = NoAcks
    /\ salt_draws = 0
    /\ last = Idle
    /\ calls = NoCalls

\* the command returns res to its caller
Return(op, res) == last' = [op |-> op, res |-> res] /\ UNCHANGED calls

\* the caller has taken the result of its last call and can make the next
Ready == last.op = "idle"

Resume ==
    /\ ~Ready
    /\ last' = Idle
    /\ UNCHANGED calls
    /\ UNCHANGED <<vaultFile, saltsFile, vault, vault_path, salts, token_cache, poisoned,
                   clock, next_id, writes, seeds, acked, salt_draws>>

\* state.vault.lock().map_err(|e| e.to_string())
LockVaultMutex ==
    IF poisoned THEN Err("poisoned lock: another task failed inside") ELSE Ok(TRUE)

\* let guard = state.vault.lock()?; let vault = guard.as_ref().ok_or("Vault is locked")?
LockedVault ==
    IF ~LockVaultMutex.ok THEN LockVaultMutex
    ELSE IF ~IsSome(vault) THEN Err("Vault is locked")
    ELSE Ok(Unwrap(vault))

\* the database behind the handle's connection
Db == Unwrap(vaultFile)

\* AppState::invalidate_cache
invalidate_cache == token_cache' = None

\* ------------------------------------------------------ vault lifecycle
\* a command that returned without writing anything
Returned(op, res) ==
    /\ Return(op, res)
    /\ UNCHANGED <<vaultFile, saltsFile, vault, vault_path, salts, token_cache, poisoned,
                   clock, next_id, writes, seeds, acked, salt_draws>>

\* UnlockFailed, had the failed attempt dropped the handle that was open
UnlockFailedDropsHandle(res) ==
    /\ vault' = None
    /\ Return("vault_unlock", res)
    /\ UNCHANGED <<vaultFile, saltsFile, vault_path, salts, token_cache, poisoned,
                   clock, next_id, writes, seeds, acked, salt_draws>>

\* vault_unlock leaving through one of its error exits
UnlockFailed(res) == Returned("vault_unlock", res)

\* vault_create: write_ok is whether std::fs::write of the salts succeeds
vault_create(password, write_ok, now) ==
    /\ Ready
    /\ LET sqlcipher_salt == generate_salt(salt_draws + 1)
           secret_salt == generate_salt(salt_draws + 2)
           keys == derive_key_pair(password, sqlcipher_salt, secret_salt)
           created == VaultOpen(vaultFile, keys.val[1], keys.val[2], now)
           new_salts == [sqlcipher_salt |-> sqlcipher_salt, secret_salt |-> secret_salt]
       IN  IF ~keys.ok
           THEN /\ Return("vault_create", keys)
                /\ UNCHANGED <<vaultFile, saltsFile, vault, vault_path, salts, token_cache,
                               poisoned, clock, next_id, writes, seeds, acked, salt_draws>>
           ELSE IF ~created.res.ok
           THEN /\ Return("vault_create", created.res)
                /\ UNCHANGED <<vaultFile, saltsFile, vault, vault_path, salts, token_cache,
                               poisoned, clock, next_id, writes, seeds, acked, salt_draws>>
           ELSE IF ~write_ok
           THEN /\ vaultFile' = created.file
                /\ salt_draws' = salt_draws + 2
                /\ clock' = now
                /\ Return("vault_create", Err("Failed to write salts: os error"))
                /\ UNCHANGED <<saltsFile, vault, vault_path, salts, token_cache, poisoned,
                               next_id, writes, seeds, acked>>
           ELSE IF ~LockVaultMutex.ok
           THEN /\ vaultFile' = created.file
                /\ saltsFile' = Some(new_salts)
                /\ salt_draws' = salt_draws + 2
                /\ clock' = now
                /\ Return("vault_create", LockVaultMutex)
                /\ UNCHANGED <<vault, vault_path, salts, token_cache, poisoned, next_id, writes, seeds, acked>>
           ELSE /\ vaultFile' = created.file
                /\ saltsFile' = Some(new_salts)
                /\ salt_draws' = salt_draws + 2
                /\ clock' = now
                /\ vault' = Some(created.res.val)
                /\ vault_path' = Some(VAULT_PATH)
                /\ salts' = Some(new_salts)
                /\ invalidate_cache
                /\ Return("vault_create", Ok("vault_created"))
                /\ UNCHANGED <<poisoned, next_id, writes, seeds, acked>>

vault_unlock(password) ==
    /\ Ready
    /\ IF ~IsSome(vaultFile)
       THEN UnlockFailed(Err("No vault found - create one first"))
       ELSE IF ~IsSome(saltsFile)
       THEN UnlockFailed(Err("Failed to read salts: os error"))
       ELSE
       LET read_salts == Unwrap(saltsFile)
           keys == derive_key_pair(password, read_salts.sqlcipher_salt, read_salts.secret_salt)
           opened == VaultOpen(vaultFile, keys.val[1], keys.val[2], clock)
       IN  IF ~keys.ok
           THEN UnlockFailed(keys)
           ELSE IF ~opened.res.ok
           THEN UnlockFailed(opened.res)
           ELSE IF ~LockVaultMutex.ok
           THEN /\ vaultFile' = opened.file
                /\ Return("vault_unlock", LockVaultMutex)
                /\ UNCHANGED <<saltsFile, vault, vault_path, salts, token_cache, poisoned,
                               clock, next_id, writes, seeds, acked, salt_draws>>
           ELSE /\ vaultFile' = opened.file
                /\ vault' = Some(opened.res.val)
                /\ vault_path' = Some(VAULT_PATH)
                /\ salts' = Some(read_salts)
                /\ invalidate_cache
                /\ Return("vault_unlock", Ok(TRUE))
                /\ UNCHANGED <<saltsFile, poisoned, clock, next_id, writes, seeds, acked, salt_draws>>

vault_lock ==
    /\ Ready
    /\ IF ~LockVaultMutex.ok
       THEN /\ Return("vault_lock", LockVaultMutex)
            /\ UNCHANGED <<vaultFile, saltsFile, vault, vault_path, salts, token_cache,
                           poisoned, clock, next_id, writes, seeds, acked, salt_draws>>
       ELSE /\ vault' = None
            /\ invalidate_cache
            /\ Return("vault_lock", Ok(TRUE))
            /\ UNCHANGED <<vaultFile, saltsFile, vault_path, salts, poisoned, clock, next_id, writes, seeds, acked,
                           salt_draws>>

\* what vault_is_locked returns in the current state
IsLockedResult == IF ~LockVaultMutex.ok THEN LockVaultMutex ELSE Ok(~IsSome(vault))

vault_is_locked ==
    /\ Ready
    /\ Return("vault_is_locked", IsLockedResult)
    /\ UNCHANGED <<vaultFile, saltsFile, vault, vault_path, salts, token_cache, poisoned,
                   clock, next_id, writes, seeds, acked, salt_draws>>

vault_exists ==
    /\ Ready
    /\ Return("vault_exists", Ok(IsSome(vaultFile)))
    /\ UNCHANGED <<vaultFile, saltsFile, vault, vault_path, salts, token_cache, poisoned,
                   clock, next_id, writes, seeds, acked, salt_draws>>

\* ------------------------------------------------------------ token CRUD
token_list ==
    /\ Ready
    /\ IF IsSome(token_cache)
       THEN /\ Return("token_list", Ok(Unwrap(token_cache)))
            /\ UNCHANGED <<vaultFile, saltsFile, vault, vault_path, salts, token_cache,
                           poisoned, clock, next_id, writes, seeds, acked, salt_draws>>
       ELSE IF ~LockedVault.ok
       THEN /\ Return("token_list", LockedVault)
            /\ UNCHANGED <<vaultFile, saltsFile, vault, vault_path, salts, token_cache,
                           poisoned, clock, next_id, writes, seeds, acked, salt_draws>>
       ELSE LET tokens == list_tokens(Db)
            IN  /\ token_cache' = Some(tokens.val)
                /\ Return("token_list", tokens)
                /\ UNCHANGED <<vaultFile, saltsFile, vault, vault_path, salts, poisoned,
                               clock, next_id, writes, seeds, acked, salt_draws>>

\* rows the command inserted or updated when it left the table as db after
\* adding the tokens of new_seeds
WriteCount(db, new_seeds) ==
    IF Len(new_seeds) > 0 THEN Len(new_seeds)
    ELSE IF Len(db.tokens) < Len(Db.tokens) \/ db = Db THEN 0 ELSE 1

\* a command that wrote the database and left through the `?` of the vault
\* call, before invalidate_cache
MutatedThenFailed(op, res, db, new_seeds, now) ==
    /\ writes + WriteCount(db, new_seeds) <= MaxWrites
    /\ writes' = writes + WriteCount(db, new_seeds)
    /\ vaultFile' = Some(db)
    /\ next_id' = next_id + Len(new_seeds)
    /\ seeds' = seeds \o new_seeds
    /\ UNCHANGED acked
    /\ clock' = now
    /\ Return(op, res)
    /\ UNCHANGED <<saltsFile, vault, vault_path, salts, token_cache, poisoned, salt_draws>>

\* Mutated, had it returned without state.invalidate_cache()
MutatedKeepsCache(op, res, db, new_seeds, now) ==
    MutatedThenFailed(op, res, db, new_seeds, now)

\* a command that wrote the database and returned through its last lines:
\* drop(guard); state.invalidate_cache(); Ok(..)
Mutated(op, res, db, new_seeds, now) ==
    /\ writes + WriteCount(db, new_seeds) <= MaxWrites
    /\ writes' = writes + WriteCount(db, new_seeds)
    /\ vaultFile' = Some(db)
    /\ next_id' = next_id + Len(new_seeds)
    /\ seeds' = seeds \o new_seeds
    /\ UNCHANGED acked
    /\ clock' = now
    /\ invalidate_cache
    /\ Return(op, res)
    /\ UNCHANGED <<saltsFile, vault, vault_path, salts, poisoned, salt_draws>>

token_add(input, nonce, now) ==
    /\ Ready
    /\ LET secret_bytes == base32_decode(input.secret)
       IN  IF ~IsSome(secret_bytes) THEN Returned("token_add", Err("Invalid Base32 secret"))
           ELSE IF ~LockedVault.ok THEN Returned("token_add", LockedVault)
           ELSE LET added == add_token(Db, LockedVault.val.secret_key,
                                       [issuer |-> input.issuer, account |-> input.account,
                                        secret |-> Unwrap(secret_bytes),
                                        algorithm |-> input.algorithm, digits |-> input.digits,
                                        token_type |-> input.token_type,
                                        period |-> input.period, counter |-> input.counter,
                                        icon |-> input.icon],
                                       next_id, now, nonce)
                IN  IF ~added.res.ok THEN Returned("token_add", added.res)
                    ELSE Mutated("token_add", added.res, added.db,
                                <<Unwrap(secret_bytes)>>, now)

token_delete(id) ==
    /\ Ready
    /\ IF ~LockedVault.ok THEN Returned("token_delete", LockedVault)
       ELSE LET deleted == delete_token(Db, id)
            IN  IF ~deleted.res.ok THEN Returned("token_delete", deleted.res)
                ELSE Mutated("token_delete", deleted.res, deleted.db, << >>, clock)

token_update(id, issuer, account, now) ==
    /\ Ready
    /\ IF ~LockedVault.ok THEN Returned("token_update", LockedVault)
       ELSE LET updated == update_token(Db, id, issuer, account, now)
            IN  IF ~updated.res.ok THEN Returned("token_update", updated.res)
                ELSE Mutated("token_update", updated.res, updated.db, << >>, now)

token_reorder(ids, now) ==
    /\ Ready
    /\ IF ~LockedVault.ok THEN Returned("token_reorder", LockedVault)
       ELSE LET reordered == reorder_tokens(Db, ids, now)
            IN  IF ~reordered.res.ok THEN Returned("token_reorder", reordered.res)
                ELSE Mutated("token_reorder", reordered.res, reordered.db, << >>, now)

token_increment_counter(id, now) ==
    /\ Ready
    /\ IF ~LockedVault.ok THEN Returned("token_increment_counter", LockedVault)
       ELSE LET incremented == increment_counter(Db, id, now)
            IN  IF ~incremented.res.ok THEN Returned("token_increment_counter", incremented.res)
                ELSE Mutated("token_increment_counter", incremented.res, incremented.db,
                             << >>, now)

\* -------------------------------------------------------- OTP generation
\* a command that panicked while it held the guard of AppState.vault: the
\* mutex is poisoned and the call does not return a value
Panicked(op, res, now) ==
    /\ poisoned' = TRUE
    /\ clock' = now
    /\ Return(op, res)
    /\ UNCHANGED <<vaultFile, saltsFile, vault, vault_path, salts, token_cache, next_id, writes, seeds, acked,
                   salt_draws>>

\* a command that read the system clock and returned without writing anything
ReturnedAt(op, res, now) ==
    /\ clock' = now
    /\ Return(op, res)
    /\ UNCHANGED <<vaultFile, saltsFile, vault, vault_path, salts, token_cache, poisoned,
                   next_id, writes, seeds, acked, salt_draws>>

otp_generate_totp(token_id, now) ==
    /\ Ready
    /\ IF ~LockedVault.ok THEN Returned("otp_generate_totp", LockedVault)
       ELSE
       LET token == get_token(Db, token_id)
           secret == get_token_secret(Db, LockedVault.val.secret_key, token_id)
       IN  IF ~token.ok THEN Returned("otp_generate_totp", token)
           ELSE IF ~IsSome(token.val) THEN Returned("otp_generate_totp", Err("Token not found"))
           ELSE IF ~secret.ok THEN Returned("otp_generate_totp", secret)
           ELSE
           LET algo == parse_algorithm(Unwrap(token.val).algorithm)
               code == totp_generate(secret.val, now, Unwrap(token.val).period,
                                     Unwrap(token.val).digits, algo.val)
           IN  IF ~algo.ok THEN Returned("otp_generate_totp", algo)
               ELSE IF IsPanic(code) THEN Panicked("otp_generate_totp", code, now)
               ELSE ReturnedAt("otp_generate_totp", code, now)

\* otp_generate_hotp, had it advanced the counter of the token it reads
otp_generate_hotp_counting(token_id) ==
    /\ Ready
    /\ IF ~LockedVault.ok THEN Returned("otp_generate_hotp", LockedVault)
       ELSE IF RowsWithId(Db, token_id) = {}
       THEN Returned("otp_generate_hotp", Err("Token not found"))
       ELSE /\ vaultFile' = Some(increment_counter(Db, token_id, clock).db)
            /\ Return("otp_generate_hotp", Ok("000000"))
            /\ UNCHANGED <<saltsFile, vault, vault_path, salts, token_cache, poisoned,
                           clock, next_id, writes, seeds, acked, salt_draws>>

otp_generate_hotp(token_id) ==
    /\ Ready
    /\ IF ~LockedVault.ok THEN Returned("otp_generate_hotp", LockedVault)
       ELSE
       LET token == get_token(Db, token_id)
           secret == get_token_secret(Db, LockedVault.val.secret_key, token_id)
       IN  IF ~token.ok THEN Returned("otp_generate_hotp", token)
           ELSE IF ~IsSome(token.val) THEN Returned("otp_generate_hotp", Err("Token not found"))
           ELSE IF ~secret.ok THEN Returned("otp_generate_hotp", secret)
           ELSE
           LET algo == parse_algorithm(Unwrap(token.val).algorithm)
               code == hotp_generate(secret.val, Unwrap(token.val).counter,
                                     Unwrap(token.val).digits, algo.val)
           IN  IF ~algo.ok THEN Returned("otp_generate_hotp", algo)
               ELSE IF IsPanic(code) THEN Panicked("otp_generate_hotp", code, clock)
               ELSE Returned("otp_generate_hotp", code)

\* --------------------------------------------------------- import / export
\* nonces[k] is the nonce drawn for the k-th token the import adds
\* the nonces an import of uris can draw: one for every entry that parses
\* to a token
NonceDraws(uris) ==
    [1..Cardinality({k \in 1..Len(uris) : ParseUri(uris[k]).ok /\ IsSome(ParseUri(uris[k]).val)})
        -> Nonces]

\* the URI list inside a blob, empty when the blob does not open
BlobUris(data, password) ==
    IF BackupTable[data, password].ok THEN BackupTable[data, password].val ELSE << >>

\* the secrets of the entries of uris that parse to a token, in order
RECURSIVE GoodSecrets(_, _)
GoodSecrets(uris, k) ==
    IF k > Len(uris) THEN << >>
    ELSE IF ParseUri(uris[k]).ok /\ IsSome(ParseUri(uris[k]).val)
    THEN <<Unwrap(ParseUri(uris[k]).val).secret>> \o GoodSecrets(uris, k + 1)
    ELSE GoodSecrets(uris, k + 1)

\* the end of an import command: imported is what the vault call returned
\* and left in the database, new_seeds the seeds of the rows it inserted
Imported(op, imported, new_seeds, now) ==
    IF ~imported.res.ok
    THEN MutatedThenFailed(op, imported.res, imported.db, new_seeds,
                           IF Len(new_seeds) > 0 THEN now ELSE clock)
    ELSE Mutated(op, imported.res, imported.db, new_seeds,
                 IF Len(new_seeds) > 0 THEN now ELSE clock)

ImportedRows(op, imported, uris, now) ==
    Imported(op, imported,
             SubSeq(GoodSecrets(uris, 1), 1, Len(imported.db.tokens) - Len(Db.tokens)), now)

vault_import_uris(uris, nonces, now) ==
    /\ Ready
    /\ IF ~LockedVault.ok THEN Returned("vault_import_uris", LockedVault)
       ELSE ImportedRows("vault_import_uris",
                         import_uris(Db, LockedVault.val.secret_key, uris, next_id,
                                     [now |-> now, nonces |-> nonces]),
                         uris, now)

vault_export_uris ==
    /\ Ready
    /\ IF ~LockedVault.ok THEN Returned("vault_export_uris", LockedVault)
       ELSE Returned("vault_export_uris", export_uris(Db, LockedVault.val.secret_key))

vault_export_encrypted(export_password, nonce) ==
    /\ Ready
    /\ IF ~LockedVault.ok THEN Returned("vault_export_encrypted", LockedVault)
       ELSE Returned("vault_export_encrypted",
                     export_encrypted(Db, LockedVault.val.secret_key, export_password,
                                      generate_salt(salt_draws + 1), nonce))

vault_import_encrypted(data, password, nonces, now) ==
    /\ Ready
    /\ IF ~LockedVault.ok THEN Returned("vault_import_encrypted", LockedVault)
       ELSE ImportedRows("vault_import_encrypted",
                         import_encrypted(Db, LockedVault.val.secret_key, data, password,
                                          next_id, [now |-> now, nonces |-> nonces]),
                         BlobUris(data, password), now)

\* ------------------------------------------------------------ specification
\* the times a call can read from the system clock
Times == clock..MaxClock

Next ==
    \/ Resume
    \/ \E write_ok \in BOOLEAN, now \in Times : vault_create(OwnerPassword, write_ok, now)
    \/ \E password \in Passwords : vault_unlock(password)
    \/ vault_lock
    \/ vault_is_locked
    \/ vault_exists
    \/ token_list
    \/ \E input \in AddInputs, nonce \in Nonces, now \in Times : token_add(input, nonce, now)
    \/ \E id \in Ids : token_delete(id)
    \/ \E id \in Ids, u \in UpdateInputs, now \in Times : token_update(id, u[1], u[2], now)
    \/ \E ids \in ReorderInputs, now \in Times : token_reorder(ids, now)
    \/ \E id \in Ids, now \in Times : token_increment_counter(id, now)
    \/ \E id \in Ids, now \in Times : otp_generate_totp(id, now)
    \/ \E id \in Ids : otp_generate_hotp(id)
    \/ \E uris \in UriBatches, now \in Times :
          \E nonces \in NonceDraws(uris) : vault_import_uris(uris, nonces, now)
    \/ vault_export_uris
    \/ \E pw \in ExportPasswords, nonce \in Nonces : vault_export_encrypted(pw, nonce)
    \/ \E data \in ImportBlobs, pw \in ExportPasswords, now \in Times :
          \E nonces \in NonceDraws(BlobUris(data, pw)) :
             vault_import_encrypted(data, pw, nonces, now)

Spec == Init /\ [][Next]_vars

\* ------------------------------------------------- overlapping commands
\* Tauri runs the commands of one AppState on several threads.  Every
\* statement that locks one of the four mutexes is a step of its own; the
\* guard `guard` of token_list (and of the mutators, up to drop(guard)) is
\* held from one step to the next.  calls[t] is the call thread t is in:
\*   pc      the statement it is at ("idle": no call; "returned": the result
\*           is with the caller)
\*   op      the command
\*   tokens  its local tokens (token_list), or the Token it adds (token_add)
\*   handle  its local vault (vault_create, vault_unlock), as an Option
\*   salts   its local salts (vault_create, vault_unlock), as an Option
\*   id      the token id it was called with (token_increment_counter,
\*           otp_generate_hotp)
\*   counter its local counter (token_increment_counter), token.counter
\*           (otp_generate_hotp)
\*   floor   acked as it was when the call began
\* A token_list, token_increment_counter or otp_generate_hotp that returned
\* a value keeps tokens, id and counter until the caller takes the result.
Threads == {1, 2}

IdleCall == [pc |-> "idle", op |-> "none", tokens |-> << >>, handle |-> None, salts |-> None,
             id |-> 0, counter |-> 0, floor |-> NoAcks]

ConcInit ==
    /\ vaultFile = None
    /\ saltsFile = None
    /\ vault = None
    /\ vault_path = None
    /\ salts = None
    /\ token_cache = None
    /\ poisoned = FALSE
    /\ clock = 0
    /\ next_id = 1
    /\ writes = 0
    /\ seeds = << >>
    /\ acked = NoAcks
    /\ salt_draws = 0
    /\ last = Idle
    /\ calls = [t \in Threads |-> IdleCall]

\* thread t goes on to the statement pc of the call it is in
Goto(t, pc) == calls' = [calls EXCEPT ![t].pc = pc]

\* thread t enters command op and stops before the statement pc
Enter(t, op, pc) == calls' = [calls EXCEPT ![t] = [IdleCall EXCEPT !.pc = pc, !.op = op]]

\* the command thread t is in returns res
ReturnTo(t, op, res) ==
    /\ calls' = [calls EXCEPT ![t] = [IdleCall EXCEPT !.pc = "returned", !.op = op]]
    /\ last' = [op |-> op, res |-> res]

\* the command thread t is in returns res, computed from what rec holds
ReturnSeen(t, op, res, rec) ==
    /\ calls' = [calls EXCEPT ![t] = [rec EXCEPT !.pc = "returned", !.op = op]]
    /\ last' = [op |-> op, res |-> res]

\* the caller on thread t takes the result
TakeResult(t) ==
    /\ calls[t].pc = "returned"
    /\ calls' = [calls EXCEPT ![t] = IdleCall]
    /\ UNCHANGED <<vaultFile, saltsFile, vault, vault_path, salts, token_cache, poisoned,
                   clock, next_id, writes, seeds, acked, salt_draws, last>>

\* no thread holds a guard of AppState.vault across steps
VaultGuardFree == \A t \in Threads : calls[t].pc # "list_populate"

\* vault_create 78-107: salts, keys, Vault::create, the salts file
vault_create_store(t, password, write_ok, now) ==
    /\ calls[t].pc = "idle"
    /\ LET sqlcipher_salt == generate_salt(salt_draws + 1)
           secret_salt == generate_salt(salt_draws + 2)
           keys == derive_key_pair(password, sqlcipher_salt, secret_salt)
           created == VaultOpen(vaultFile, keys.val[1], keys.val[2], now)
           new_salts == [sqlcipher_salt |-> sqlcipher_salt, secret_salt |-> secret_salt]
       IN  IF ~keys.ok
           THEN /\ ReturnTo(t, "vault_create", keys)
                /\ UNCHANGED <<vaultFile, saltsFile, salt_draws, clock>>
           ELSE IF ~created.res.ok
           THEN /\ ReturnTo(t, "vault_create", created.res)
                /\ UNCHANGED <<vaultFile, saltsFile, salt_draws, clock>>
           ELSE IF ~write_ok
           THEN /\ vaultFile' = created.file
                /\ salt_draws' = salt_draws + 2
                /\ clock' = now
                /\ ReturnTo(t, "vault_create", Err("Failed to write salts: os error"))
                /\ UNCHANGED saltsFile
           ELSE /\ vaultFile' = created.file
                /\ saltsFile' = Some(new_salts)
                /\ salt_draws' = salt_draws + 2
                /\ clock' = now
                /\ calls' = [calls EXCEPT ![t] =
                                [pc |-> "open_vault", op |-> "vault_create", tokens |-> << >>,
                                 handle |-> Some(created.res.val), salts |-> Some(new_salts)]]
                /\ UNCHANGED last
    /\ UNCHANGED <<vault, vault_path, salts, token_cache, poisoned, next_id, writes, seeds, acked>>

\* vault_unlock 123-147: the files, the keys, Vault::open
vault_unlock_open(t, password) ==
    /\ calls[t].pc = "idle"
    /\ IF ~IsSome(vaultFile)
       THEN /\ ReturnTo(t, "vault_unlock", Err("No vault found - create one first"))
            /\ UNCHANGED vaultFile
       ELSE IF ~IsSome(saltsFile)
       THEN /\ ReturnTo(t, "vault_unlock", Err("Failed to read salts: os error"))
            /\ UNCHANGED vaultFile
       ELSE
       LET read_salts == Unwrap(saltsFile)
           keys == derive_key_pair(password, read_salts.sqlcipher_salt, read_salts.secret_salt)
           opened == VaultOpen(vaultFile, keys.val[1], keys.val[2], clock)
       IN  IF ~keys.ok
           THEN /\ ReturnTo(t, "vault_unlock", keys)
                /\ UNCHANGED vaultFile
           ELSE IF ~opened.res.ok
           THEN /\ ReturnTo(t, "vault_unlock", opened.res)
                /\ UNCHANGED vaultFile
           ELSE /\ vaultFile' = opened.file
                /\ calls' = [calls EXCEPT ![t] =
                                [pc |-> "open_vault", op |-> "vault_unlock", tokens |-> << >>,
                                 handle |-> Some(opened.res.val), salts |-> Some(read_salts)]]
                /\ UNCHANGED last
    /\ UNCHANGED <<saltsFile, vault, vault_path, salts, token_cache, poisoned, clock,
                   next_id, writes, seeds, acked, salt_draws>>

\* vault_create 109, vault_unlock 149: *state.vault.lock()? = Some(vault)
open_set_vault(t) ==
    /\ calls[t].pc = "open_vault"
    /\ VaultGuardFree
    /\ IF ~LockVaultMutex.ok
       THEN /\ ReturnTo(t, calls[t].op, LockVaultMutex)
            /\ UNCHANGED vault
       ELSE /\ vault' = calls[t].handle
            /\ Goto(t, "open_path")
            /\ UNCHANGED last
    /\ UNCHANGED <<vaultFile, saltsFile, vault_path, salts, token_cache, poisoned, clock,
                   next_id, writes, seeds, acked, salt_draws>>

\* vault_create 110, vault_unlock 150: *state.vault_path.lock()? = Some(..)
open_set_path(t) ==
    /\ calls[t].pc = "open_path"
    /\ vault_path' = Some(VAULT_PATH)
    /\ Goto(t, "open_salts")
    /\ UNCHANGED <<vaultFile, saltsFile, vault, salts, token_cache, poisoned, clock,
                   next_id, writes, seeds, acked, salt_draws, last>>

\* vault_create 111, vault_unlock 151: *state.salts.lock()? = Some(salts)
open_set_salts(t) ==
    /\ calls[t].pc = "open_salts"
    /\ salts' = calls[t].salts
    /\ Goto(t, "open_invalidate")
    /\ UNCHANGED <<vaultFile, saltsFile, vault, vault_path, token_cache, poisoned, clock,
                   next_id, writes, seeds, acked, salt_draws, last>>

\* vault_create 112-114, vault_unlock 152-154: state.invalidate_cache(); Ok(..)
open_invalidate(t) ==
    /\ calls[t].pc = "open_invalidate"
    /\ invalidate_cache
    /\ ReturnTo(t, calls[t].op,
                IF calls[t].op = "vault_create" THEN Ok("vault_created") ELSE Ok(TRUE))
    /\ UNCHANGED <<vaultFile, saltsFile, vault, vault_path, salts, poisoned, clock,
                   next_id, writes, seeds, acked, salt_draws>>

\* vault_lock 161: *state.vault.lock()? = None
vault_lock_drop(t) ==
    /\ calls[t].pc = "idle"
    /\ VaultGuardFree
    /\ IF ~LockVaultMutex.ok
       THEN /\ ReturnTo(t, "vault_lock", LockVaultMutex)
            /\ UNCHANGED vault
       ELSE /\ vault' = None
            /\ Enter(t, "vault_lock", "lock_invalidate")
            /\ UNCHANGED last
    /\ UNCHANGED <<vaultFile, saltsFile, vault_path, salts, token_cache, poisoned, clock,
                   next_id, writes, seeds, acked, salt_draws>>

\* vault_lock 162-163: state.invalidate_cache(); Ok(())
vault_lock_invalidate(t) ==
    /\ calls[t].pc = "lock_invalidate"
    /\ invalidate_cache
    /\ ReturnTo(t, "vault_lock", Ok(TRUE))
    /\ UNCHANGED <<vaultFile, saltsFile, vault, vault_path, salts, poisoned, clock,
                   next_id, writes, seeds, acked, salt_draws>>

\* vault_is_locked 169-170
vault_is_locked_read(t) ==
    /\ calls[t].pc = "idle"
    /\ VaultGuardFree
    /\ ReturnTo(t, "vault_is_locked", IsLockedResult)
    /\ UNCHANGED <<vaultFile, saltsFile, vault, vault_path, salts, token_cache, poisoned,
                   clock, next_id, writes, seeds, acked, salt_draws>>

\* token_list 188-193: the block that reads the cache
token_list_cache(t) ==
    /\ calls[t].pc = "idle"
    /\ IF IsSome(token_cache)
       THEN ReturnSeen(t, "token_list", Ok(Unwrap(token_cache)),
                       [IdleCall EXCEPT !.tokens = Unwrap(token_cache), !.floor = acked])
       ELSE /\ calls' = [calls EXCEPT ![t] = [IdleCall EXCEPT !.pc = "list_read",
                                                              !.op = "token_list",
                                                              !.floor = acked]]
            /\ UNCHANGED last
    /\ UNCHANGED <<vaultFile, saltsFile, vault, vault_path, salts, token_cache, poisoned,
                   clock, next_id, writes, seeds, acked, salt_draws>>

\* token_list 195-197: the guard is taken and the store read
token_list_read(t) ==
    /\ calls[t].pc = "list_read"
    /\ VaultGuardFree
    /\ IF ~LockedVault.ok
       THEN ReturnTo(t, "token_list", LockedVault)
       ELSE /\ calls' = [calls EXCEPT ![t].pc = "list_populate",
                                      ![t].tokens = list_tokens(Db).val]
            /\ UNCHANGED last
    /\ UNCHANGED <<vaultFile, saltsFile, vault, vault_path, salts, token_cache, poisoned,
                   clock, next_id, writes, seeds, acked, salt_draws>>

\* token_list_populate, had line 200 locked state.vault, which the thread
\* holds, in place of state.token_cache
token_list_populate_relocking(t) ==
    /\ calls[t].pc = "list_populate"
    /\ VaultGuardFree
    /\ token_cache' = Some(calls[t].tokens)
    /\ ReturnSeen(t, "token_list", Ok(calls[t].tokens), calls[t])
    /\ UNCHANGED <<vaultFile, saltsFile, vault, vault_path, salts, poisoned, clock,
                   next_id, writes, seeds, acked, salt_draws>>

\* token_list 200-204: the cache is filled under the guard, which the return
\* drops
token_list_populate(t) ==
    /\ calls[t].pc = "list_populate"
    /\ token_cache' = Some(calls[t].tokens)
    /\ ReturnSeen(t, "token_list", Ok(calls[t].tokens), calls[t])
    /\ UNCHANGED <<vaultFile, saltsFile, vault, vault_path, salts, poisoned, clock,
                   next_id, writes, seeds, acked, salt_draws>>

\* token_add 223-243: the secret is decoded, the guard taken, the row
\* inserted and the guard dropped
token_add_insert(t, input, nonce, now) ==
    /\ calls[t].pc = "idle"
    /\ LET secret_bytes == base32_decode(input.secret)
       IN  IF ~IsSome(secret_bytes)
           THEN /\ ReturnTo(t, "token_add", Err("Invalid Base32 secret"))
                /\ UNCHANGED <<vaultFile, next_id, writes, seeds, acked, clock>>
           ELSE /\ VaultGuardFree
                /\ IF ~LockedVault.ok
                   THEN /\ ReturnTo(t, "token_add", LockedVault)
                        /\ UNCHANGED <<vaultFile, next_id, writes, seeds, acked, clock>>
                   ELSE LET added == add_token(Db, LockedVault.val.secret_key,
                                               [issuer |-> input.issuer, account |-> input.account,
                                                secret |-> Unwrap(secret_bytes),
                                                algorithm |-> input.algorithm,
                                                digits |-> input.digits,
                                                token_type |-> input.token_type,
                                                period |-> input.period,
                                                counter |-> input.counter, icon |-> input.icon],
                                               next_id, now, nonce)
                        IN  IF ~added.res.ok
                            THEN /\ ReturnTo(t, "token_add", added.res)
                                 /\ UNCHANGED <<vaultFile, next_id, writes, seeds, acked, clock>>
                            ELSE /\ writes < MaxWrites
                                 /\ writes' = writes + 1
                                 /\ vaultFile' = Some(added.db)
                                 /\ next_id' = next_id + 1
                                 /\ seeds' = Append(seeds, Unwrap(secret_bytes))
                                 /\ UNCHANGED acked
                                 /\ clock' = now
                                 /\ calls' = [calls EXCEPT ![t] =
                                                 [IdleCall EXCEPT !.pc = "add_invalidate",
                                                                  !.op = "token_add",
                                                                  !.tokens = <<added.res.val>>]]
                                 /\ UNCHANGED last
    /\ UNCHANGED <<saltsFile, vault, vault_path, salts, token_cache, poisoned, salt_draws>>

\* token_add 244-245: state.invalidate_cache(); Ok(token)
token_add_invalidate(t) ==
    /\ calls[t].pc = "add_invalidate"
    /\ invalidate_cache
    /\ ReturnTo(t, "token_add", Ok(calls[t].tokens[1]))
    /\ UNCHANGED <<vaultFile, saltsFile, vault, vault_path, salts, poisoned, clock,
                   next_id, writes, seeds, acked, salt_draws>>

\* token_delete 251-254: the guard is taken, the row deleted, the guard dropped
token_delete_row(t, id) ==
    /\ calls[t].pc = "idle"
    /\ VaultGuardFree
    /\ IF ~LockedVault.ok
       THEN /\ ReturnTo(t, "token_delete", LockedVault)
            /\ UNCHANGED vaultFile
       ELSE IF ~delete_token(Db, id).res.ok
       THEN /\ ReturnTo(t, "token_delete", delete_token(Db, id).res)
            /\ UNCHANGED vaultFile
       ELSE /\ vaultFile' = Some(delete_token(Db, id).db)
            /\ Enter(t, "token_delete", "delete_invalidate")
            /\ UNCHANGED last
    /\ UNCHANGED <<saltsFile, vault, vault_path, salts, token_cache, poisoned, clock,
                   next_id, writes, seeds, acked, salt_draws>>

\* token_delete 255-256: state.invalidate_cache(); Ok(true)
token_delete_invalidate(t) ==
    /\ calls[t].pc = "delete_invalidate"
    /\ invalidate_cache
    /\ ReturnTo(t, "token_delete", Ok(TRUE))
    /\ UNCHANGED <<vaultFile, saltsFile, vault, vault_path, salts, poisoned, clock,
                   next_id, writes, seeds, acked, salt_draws>>

\* token_increment_counter 289-292: the guard is taken, the counter
\* incremented and read back, and the guard dropped
token_increment_row(t, id, now) ==
    /\ calls[t].pc = "idle"
    /\ VaultGuardFree
    /\ IF ~LockedVault.ok
       THEN /\ ReturnTo(t, "token_increment_counter", LockedVault)
            /\ UNCHANGED <<vaultFile, clock>>
       ELSE IF ~increment_counter(Db, id, now).res.ok
       THEN /\ ReturnTo(t, "token_increment_counter", increment_counter(Db, id, now).res)
            /\ UNCHANGED <<vaultFile, clock>>
       ELSE /\ increment_counter(Db, id, now).res.val <= MaxCounter
            /\ vaultFile' = Some(increment_counter(Db, id, now).db)
            /\ clock' = now
            /\ calls' = [calls EXCEPT ![t] =
                            [IdleCall EXCEPT !.pc = "increment_invalidate",
                                             !.op = "token_increment_counter",
                                             !.id = id,
                                             !.counter = increment_counter(Db, id, now).res.val,
                                             !.floor = acked]]
            /\ UNCHANGED last
    /\ UNCHANGED <<saltsFile, vault, vault_path, salts, token_cache, poisoned, next_id,
                   writes, seeds, acked, salt_draws>>

\* token_increment_invalidate, had it returned without
\* state.invalidate_cache()
token_increment_keeps_cache(t) ==
    /\ calls[t].pc = "increment_invalidate"
    /\ acked' = [acked EXCEPT ![calls[t].id] =
                    IF calls[t].counter > @ THEN calls[t].counter ELSE @]
    /\ ReturnSeen(t, "token_increment_counter", Ok(calls[t].counter), calls[t])
    /\ UNCHANGED <<vaultFile, saltsFile, vault, vault_path, salts, token_cache, poisoned,
                   clock, next_id, writes, seeds, salt_draws>>

\* token_increment_counter 293-294: state.invalidate_cache(); Ok(counter)
token_increment_invalidate(t) ==
    /\ calls[t].pc = "increment_invalidate"
    /\ invalidate_cache
    /\ acked' = [acked EXCEPT ![calls[t].id] =
                    IF calls[t].counter > @ THEN calls[t].counter ELSE @]
    /\ ReturnSeen(t, "token_increment_counter", Ok(calls[t].counter), calls[t])
    /\ UNCHANGED <<vaultFile, saltsFile, vault, vault_path, salts, poisoned, clock,
                   next_id, writes, seeds, salt_draws>>

\* otp_generate_hotp 343-352: the guard is held from the first line to the
\* return; a panic of hotp::generate under the guard poisons the mutex
otp_generate_hotp_read(t, token_id) ==
    /\ calls[t].pc = "idle"
    /\ VaultGuardFree
    /\ IF ~LockedVault.ok
       THEN ReturnTo(t, "otp_generate_hotp", LockedVault) /\ UNCHANGED poisoned
       ELSE
       LET token == get_token(Db, token_id)
           secret == get_token_secret(Db, LockedVault.val.secret_key, token_id)
       IN  IF ~token.ok
           THEN ReturnTo(t, "otp_generate_hotp", token) /\ UNCHANGED poisoned
           ELSE IF ~IsSome(token.val)
           THEN ReturnTo(t, "otp_generate_hotp", Err("Token not found")) /\ UNCHANGED poisoned
           ELSE IF ~secret.ok
           THEN ReturnTo(t, "otp_generate_hotp", secret) /\ UNCHANGED poisoned
           ELSE
           LET algo == parse_algorithm(Unwrap(token.val).algorithm)
               code == hotp_generate(secret.val, Unwrap(token.val).counter,
                                     Unwrap(token.val).digits, algo.val)
           IN  IF ~algo.ok
               THEN ReturnTo(t, "otp_generate_hotp", algo) /\ UNCHANGED poisoned
               ELSE IF IsPanic(code)
               THEN ReturnTo(t, "otp_generate_hotp", code) /\ poisoned' = TRUE
               ELSE /\ ReturnSeen(t, "otp_generate_hotp", code,
                                  [IdleCall EXCEPT !.id = token_id,
                                                   !.counter = Unwrap(token.val).counter,
                                                   !.floor = acked])
                    /\ UNCHANGED poisoned
    /\ UNCHANGED <<vaultFile, saltsFile, vault, vault_path, salts, token_cache, clock,
                   next_id, writes, seeds, acked, salt_draws>>

ConcNext ==
    \E t \in Threads :
        \/ TakeResult(t)
        \/ \E write_ok \in BOOLEAN : vault_create_store(t, OwnerPassword, write_ok, clock)
        \/ \E password \in Passwords : vault_unlock_open(t, password)
        \/ open_set_vault(t)
        \/ open_set_path(t)
        \/ open_set_salts(t)
        \/ open_invalidate(t)
        \/ vault_lock_drop(t)
        \/ vault_lock_invalidate(t)
        \/ vault_is_locked_read(t)
        \/ token_list_cache(t)
        \/ token_list_read(t)
        \/ token_list_populate(t)
        \/ \E input \in AddInputs, nonce \in Nonces : token_add_insert(t, input, nonce, clock)
        \/ token_add_invalidate(t)
        \/ \E id \in Ids : token_delete_row(t, id)
        \/ token_delete_invalidate(t)

SpecConc == ConcInit /\ [][ConcNext]_vars

\* thread t runs the next statement of the command it is in
Continue(t) ==
    \/ open_set_vault(t)
    \/ open_set_path(t)
    \/ open_set_salts(t)
    \/ open_invalidate(t)
    \/ vault_lock_invalidate(t)
    \/ token_list_read(t)
    \/ token_list_populate(t)
    \/ token_add_invalidate(t)
    \/ token_delete_invalidate(t)

\* the scheduler runs every thread, and a thread that waits for a mutex
\* which is released again and again gets it in the end
SpecConcFair == SpecConc /\ \A t \in Threads : SF_calls(Continue(t))

\* the commands that read and write the counters, overlapping on a vault
\* that is created and filled first
IncrNext ==
    \E t \in Threads :
        \/ TakeResult(t)
        \/ vault_create_store(t, OwnerPassword, TRUE, clock)
        \/ open_set_vault(t)
        \/ open_set_path(t)
        \/ open_set_salts(t)
        \/ open_invalidate(t)
        \/ token_list_cache(t)
        \/ token_list_read(t)
        \/ token_list_populate(t)
        \/ \E input \in AddInputs, nonce \in Nonces : token_add_insert(t, input, nonce, clock)
        \/ token_add_invalidate(t)
        \/ \E id \in Ids : token_increment_row(t, id, clock)
        \/ token_increment_invalidate(t)
        \/ \E token_id \in Ids : otp_generate_hotp_read(t, token_id)

SpecIncr == ConcInit /\ [][IncrNext]_vars

\* ------------------------------------------------- the Vault methods alone
\* A vault as the integration tests drive it (integration_tests.rs
\* create_test_vault): created under two fixed keys, then called through the
\* methods of Vault without the command facade.  last keeps the method, its
\* argument and what it returned; writes counts the calls.
TestDbKey == [i \in 1..KEY_LENGTH |-> 66]
TestSecretKey == [i \in 1..KEY_LENGTH |-> 67]

\* NewToken values add_token is called with (integration_tests.rs test_token)
VaultNewTokens ==
    { [issuer |-> "A", account |-> "test@example.com", secret |-> <<49, 50>>,
       algorithm |-> "SHA1", digits |-> 6, token_type |-> "totp", period |-> 30,
       counter |-> 0, icon |-> None],
      [issuer |-> "B", account |-> "test@example.com", secret |-> <<51>>,
       algorithm |-> "SHA1", digits |-> 6, token_type |-> "hotp", period |-> 30,
       counter |-> 1, icon |-> None] }

\* the batches import_uris is called with: those of the commands, two URIs
\* that parse, and a bad URI between two that parse
VaultUriBatches ==
    UriBatches \cup { <<UriHotp, UriTotp>>, <<UriHotp, UriBad, UriTotp>> }

\* ids the methods are called with: every id add_token can have drawn, and
\* one it has not
VaultIds == 1..(MaxRows + 1)

\* id lists reorder_tokens is called with: any list, repeats included
RECURSIVE IdLists(_)
IdLists(n) ==
    IF n = 0 THEN { << >> }
    ELSE IdLists(n - 1) \cup {Append(q, i) : q \in IdLists(n - 1), i \in VaultIds}

VaultInit ==
    /\ vaultFile = VaultOpen(None, TestDbKey, TestSecretKey, 0).file
    /\ saltsFile = None
    /\ vault = Some(VaultOpen(None, TestDbKey, TestSecretKey, 0).res.val)
    /\ vault_path = None
    /\ salts = None
    /\ token_cache = None
    /\ poisoned = FALSE
    /\ clock = 0
    /\ next_id = 1
    /\ writes = 0
    /\ seeds = << >>
    /\ acked = NoAcks
    /\ salt_draws = 0
    /\ last = [op |-> "create", res |-> Ok(TRUE), arg |-> None]
    /\ calls = NoCalls

\* a method of Vault was called with arg at time now, returned out.res and
\* left the database out.db, with the tokens of new_seeds inserted
VaultCall(op, arg, out, new_seeds, now) ==
    /\ writes < MaxCalls
    /\ writes' = writes + 1
    /\ vaultFile' = Some(out.db)
    /\ next_id' = next_id + Len(new_seeds)
    /\ seeds' = seeds \o new_seeds
    /\ UNCHANGED acked
    /\ clock' = now
    /\ last' = [op |-> op, res |-> out.res, arg |-> arg]
    /\ UNCHANGED <<saltsFile, vault, vault_path, salts, token_cache, poisoned, salt_draws,
                   calls>>

call_add_token(new_token, nonce, now) ==
    /\ next_id <= MaxRows
    /\ VaultCall("add_token", new_token,
                 add_token(Db, Unwrap(vault).secret_key, new_token, next_id, now, nonce),
                 <<new_token.secret>>, now)

call_update_token(id, issuer, account, now) ==
    VaultCall("update_token", [id |-> id, issuer |-> issuer, account |-> account],
              update_token(Db, id, issuer, account, now), << >>, now)

call_delete_token(id) ==
    VaultCall("delete_token", id, delete_token(Db, id), << >>, clock)

call_reorder_tokens(id_order, now) ==
    VaultCall("reorder_tokens", id_order, reorder_tokens(Db, id_order, now), << >>, now)

call_increment_counter(id, now) ==
    VaultCall("increment_counter", id, increment_counter(Db, id, now), << >>, now)

\* the reading methods take &self and run one SELECT
call_list_tokens ==
    VaultCall("list_tokens", None, [res |-> list_tokens(Db), db |-> Db], << >>, clock)

call_get_token(id) ==
    VaultCall("get_token", id, [res |-> get_token(Db, id), db |-> Db], << >>, clock)

call_get_token_secret(id) ==
    VaultCall("get_token_secret", id,
              [res |-> get_token_secret(Db, Unwrap(vault).secret_key, id), db |-> Db],
              << >>, clock)

call_import_uris(uris, nonces, now) ==
    /\ next_id <= MaxRows
    /\ VaultCall("import_uris", uris,
                 import_uris(Db, Unwrap(vault).secret_key, uris, next_id,
                             [now |-> now, nonces |-> nonces]),
                 SubSeq(GoodSecrets(uris, 1), 1,
                        Len(import_uris(Db, Unwrap(vault).secret_key, uris, next_id,
                                        [now |-> now, nonces |-> nonces]).db.tokens)
                            - Len(Db.tokens)),
                 now)

VaultNext ==
    \/ \E new_token \in VaultNewTokens, nonce \in Nonces, now \in Times :
          call_add_token(new_token, nonce, now)
    \/ \E id \in VaultIds, u \in UpdateInputs, now \in Times :
          call_update_token(id, u[1], u[2], now)
    \/ \E id \in VaultIds : call_delete_token(id)
    \/ \E id_order \in IdLists(MaxRows), now \in Times : call_reorder_tokens(id_order, now)
    \/ \E id \in VaultIds, now \in Times : call_increment_counter(id, now)
    \/ call_list_tokens
    \/ \E id \in VaultIds : call_get_token(id)
    \/ \E id \in VaultIds : call_get_token_secret(id)
    \/ \E uris \in UriBatches, now \in Times :
          \E nonces \in NonceDraws(uris) : call_import_uris(uris, nonces, now)

SpecVault == VaultInit /\ [][VaultNext]_vars

\* ---------------------------------------------- importing the backups
\* the URI list import_encrypted finds in the blob, empty if it finds none
FoundUris(data, password) ==
    IF BackupOf(data, password).ok THEN BackupOf(data, password).val ELSE << >>

call_import_encrypted(data, password, nonces, now) ==
    /\ next_id <= MaxRows
    /\ VaultCall("import_encrypted", [data |-> data, password |-> password],
                 import_encrypted(Db, Unwrap(vault).secret_key, data, password, next_id,
                                  [now |-> now, nonces |-> nonces]),
                 SubSeq(GoodSecrets(FoundUris(data, password), 1), 1,
                        Len(import_encrypted(Db, Unwrap(vault).secret_key, data, password,
                                             next_id,
                                             [now |-> now, nonces |-> nonces]).db.tokens)
                            - Len(Db.tokens)),
                 now)

BackupNext ==
    \/ \E new_token \in VaultNewTokens, nonce \in Nonces, now \in Times :
          call_add_token(new_token, nonce, now)
    \/ \E id \in VaultIds : call_delete_token(id)
    \/ \E data \in BackupBlobs, password \in ExportPasswords, now \in Times :
          \E nonces \in NonceDraws(FoundUris(data, password)) :
              call_import_encrypted(data, password, nonces, now)
    \/ \E uris \in VaultUriBatches, now \in Times :
          \E nonces \in NonceDraws(uris) : call_import_uris(uris, nonces, now)

SpecBackup == VaultInit /\ [][BackupNext]_vars

\* ------------------------------------------- exporting and parsing URIs
call_export_uris ==
    VaultCall("export_uris", None,
              [res |-> export_uris(Db, Unwrap(vault).secret_key), db |-> Db], << >>, clock)

UriNext ==
    \/ \E new_token \in UriTokens, nonce \in Nonces, now \in Times :
          call_add_token(new_token, nonce, now)
    \/ call_export_uris
    \/ \E uri \in ProbeUris, now \in Times :
          \E nonces \in NonceDraws(<<uri>>) : call_import_uris(<<uri>>, nonces, now)

SpecUri == VaultInit /\ [][UriNext]_vars

\* ------------------------------------------- the envelope on its own
\* plaintexts, keys and nonce draws encrypt and decrypt are called with; the
\* keys are ones the stand-in tells apart
AeadPlaintexts == { << >>, <<0>>, <<255>>, <<1, 2>>, <<104, 105, 33>> }
AeadKeys == { TestDbKey, TestSecretKey, [i \in 1..KEY_LENGTH |-> i],
              derive_key("xp", generate_salt(200)).val }
AeadNonces == Nonces \cup { [i \in 1..NONCE_SIZE |-> 5], [i \in 1..NONCE_SIZE |-> 250 + i] }

\* aead.rs encrypt: nonce_bytes is what generate_bytes(NONCE_SIZE) returned
encrypt(plaintext, key, nonce_bytes) == encrypt_with_nonce(plaintext, key, nonce_bytes)

\* the envelope the last call made or was given
EnvelopeAtHand == IF last.op = "encrypt" THEN last.res.val ELSE last.arg.encrypted

AeadCall(op, res, arg) ==
    /\ writes < MaxCalls
    /\ writes' = writes + 1
    /\ last' = [op |-> op, res |-> res, arg |-> arg]
    /\ UNCHANGED <<vaultFile, saltsFile, vault, vault_path, salts, token_cache, poisoned,
                   clock, next_id, seeds, acked, salt_draws, calls>>

call_encrypt(plaintext, key, nonce_bytes) ==
    AeadCall("encrypt", encrypt(plaintext, key, nonce_bytes),
             [plaintext |-> plaintext, sealed_under |-> key])

\* decrypt of the envelope at hand; the argument keeps what was sealed and
\* under which key
call_decrypt(key) ==
    /\ last.op \in {"encrypt", "decrypt"}
    /\ AeadCall("decrypt", decrypt(EnvelopeAtHand, key),
                [key |-> key, plaintext |-> last.arg.plaintext,
                 encrypted |-> EnvelopeAtHand, sealed_under |-> last.arg.sealed_under])

AeadNext ==
    \/ \E plaintext \in AeadPlaintexts, key \in AeadKeys, nonce_bytes \in AeadNonces :
          call_encrypt(plaintext, key, nonce_bytes)
    \/ \E key \in AeadKeys : call_decrypt(key)

SpecAead == VaultInit /\ [][AeadNext]_vars

\* ------------------------------------- byte strings given to decrypt
\* the envelope encrypt returned last, kept through the calls of decrypt
EnvelopeKept ==
    IF last.op = "encrypt" THEN last.res.val
    ELSE IF last.op = "decrypt_bytes" THEN last.arg.envelope
    ELSE << >>

\* vec![0u8; n]
ZeroBytes(n) == [i \in 1..n |-> 0]

\* the inputs of decrypt: zero bytes one short of a nonce and a tag, as
\* long, and longer; the envelope at hand cut to its first n bytes; the
\* envelope with its last byte changed
CutLengths == {0, 1, NONCE_SIZE, NONCE_SIZE + TAG_SIZE - 1, NONCE_SIZE + TAG_SIZE,
               NONCE_SIZE + TAG_SIZE + 1, NONCE_SIZE + TAG_SIZE + 3}

DecryptInputs(envelope) ==
    {ZeroBytes(n) : n \in {NONCE_SIZE + TAG_SIZE - 1, NONCE_SIZE + TAG_SIZE,
                           NONCE_SIZE + TAG_SIZE + 2}}
    \cup {SubSeq(envelope, 1, n) : n \in {m \in CutLengths : m <= Len(envelope)}}
    \cup (IF Len(envelope) = 0 THEN {}
          ELSE {[envelope EXCEPT ![Len(envelope)] = (@ + 255) % 256]})

call_decrypt_bytes(encrypted, key) ==
    AeadCall("decrypt_bytes", decrypt(encrypted, key),
             [key |-> key, encrypted |-> encrypted, envelope |-> EnvelopeKept])

EnvelopeNext ==
    \/ \E plaintext \in AeadPlaintexts, key \in AeadKeys, nonce_bytes \in AeadNonces :
          call_encrypt(plaintext, key, nonce_bytes)
    \/ \E encrypted \in DecryptInputs(EnvelopeKept), key \in AeadKeys :
          call_decrypt_bytes(encrypted, key)

SpecEnvelope == VaultInit /\ [][EnvelopeNext]_vars

\* --------------------------------------------- the generators alone
\* secrets, counters, digit counts, times and steps hotp::generate,
\* totp::generate and time_remaining are called with
OtpSecrets == { <<1>>, <<49, 50, 51, 52, 53>> }
OtpCounters == {0, 1, 2, 9, 1000000}
OtpDigits == {6, 7, 8}
OtpAlgorithms == {"SHA1", "SHA256", "SHA512"}
OtpTimes == {0, 1, 29, 30, 31, 59, 60, 61, 119, 120}
OtpPeriods == {1, 30, 60}
ClockTimes == 0..61
\* the counters above and the steps the times above fall in
StepCounters == {0, 1, 2, 3, 4, 9, 29, 30, 31, 59, 60, 61, 119, 120, 1000000}

\* what hotp::generate, totp::generate and time_remaining return for these
\* inputs, computed once
HotpCodes ==
    [secret \in OtpSecrets, counter \in StepCounters, digits \in OtpDigits,
     algorithm \in OtpAlgorithms |-> hotp_generate(secret, counter, digits, algorithm)]

TotpCodes ==
    [secret \in OtpSecrets, time \in OtpTimes, period \in OtpPeriods,
     algorithm \in OtpAlgorithms |-> totp_generate(secret, time, period, 6, algorithm)]

RemainingTimes ==
    [time \in 0..62, period \in OtpPeriods |-> time_remaining(time, period)]

call_hotp_generate(secret, counter, digits, algorithm) ==
    AeadCall("hotp_generate", HotpCodes[secret, counter, digits, algorithm],
             [algorithm |-> algorithm, digits |-> digits, counter |-> counter,
              secret |-> secret])

call_totp_generate(secret, time, period, algorithm) ==
    AeadCall("totp_generate", TotpCodes[secret, time, period, algorithm],
             [algorithm |-> algorithm, digits |-> 6, period |-> period,
              secret |-> secret, time |-> time])

call_time_remaining(time, period) ==
    AeadCall("time_remaining", RemainingTimes[time, period],
             [period |-> period, time |-> time])

\* the counters of the RFC 4226 vectors, the times of the RFC 6238 vectors
\* below 2^31, and the step the time 20000000000 falls in
RfcCounters == 0..9
RfcTimes == {59, 1111111109, 1111111111, 1234567890, 2000000000}
RfcLastStep == 666666666

call_rfc_hotp(counter, digits, algorithm) ==
    AeadCall("hotp_generate", hotp_generate(RfcSecret(algorithm), counter, digits, algorithm),
             [algorithm |-> algorithm, digits |-> digits, counter |-> counter])

call_rfc_totp(time, algorithm) ==
    AeadCall("totp_generate", totp_generate(RfcSecret(algorithm), time, 30, 8, algorithm),
             [algorithm |-> algorithm, time |-> time])

RfcNext ==
    \/ \E counter \in RfcCounters : call_rfc_hotp(counter, 6, "SHA1")
    \/ \E algorithm \in OtpAlgorithms : call_rfc_hotp(RfcLastStep, 8, algorithm)
    \/ \E time \in RfcTimes, algorithm \in OtpAlgorithms : call_rfc_totp(time, algorithm)

SpecRfc == VaultInit /\ [][RfcNext]_vars

OtpNext ==
    \/ \E secret \in OtpSecrets, counter \in OtpCounters, digits \in OtpDigits,
          algorithm \in OtpAlgorithms :
          call_hotp_generate(secret, counter, digits, algorithm)
    \/ \E secret \in OtpSecrets, time \in OtpTimes, period \in OtpPeriods,
          algorithm \in {"SHA1", "SHA512"} :
          call_totp_generate(secret, time, period, algorithm)
    \/ \E time \in ClockTimes, period \in OtpPeriods : call_time_remaining(time, period)

SpecOtp == VaultInit /\ [][OtpNext]_vars

\* ------------------------------------------------------------ vocabulary
\* the tokens persisted in the store, as list_tokens reads them
StoredTokens == IF IsSome(vaultFile) THEN list_tokens(Db).val ELSE << >>

StoredIds == {StoredTokens[k].id : k \in 1..Len(StoredTokens)}

\* Locked: a vault was opened by this facade, and vault_lock has dropped the
\* handle since the last successful vault_create or vault_unlock
Locked == IsSome(vaultFile) /\ IsSome(vault_path) /\ ~IsSome(vault)

\* the commands that need an unlocked vault
GuardedOps ==
    {"token_list", "token_add", "token_delete", "token_update", "token_reorder",
     "token_increment_counter", "otp_generate_totp", "otp_generate_hotp",
     "vault_import_uris", "vault_export_uris", "vault_export_encrypted",
     "vault_import_encrypted"}

\* the commands that write the token table
Mutators ==
    {"token_add", "token_delete", "token_update", "token_reorder",
     "token_increment_counter", "vault_import_uris", "vault_import_encrypted"}

\* K_sec of the vault on disk: the key the owner's password and the stored
\* salts derive
StoreSecretKey ==
    derive_key_pair(OwnerPassword, Unwrap(saltsFile).sqlcipher_salt,
                    Unwrap(saltsFile).secret_salt).val[2]

\* the fields of a Token (token.rs Token)
TokenFields ==
    {"id", "issuer", "account", "algorithm", "digits", "token_type", "period",
     "counter", "icon", "sort_order", "created_at", "updated_at", "last_modified",
     "device_id", "sync_version"}

\* ------------------------------------------------------------------- C1
\* C1: in a step taken while the facade is Locked, every command that needs
\* an unlocked vault fails with "Vault is locked" and leaves the store and
\* the listing cache as they were.
C1_LockedCallsFailLocked ==
    [][ (Locked /\ last'.op \in GuardedOps)
            => /\ ~last'.res.ok
               /\ last'.res.err = "Vault is locked"
               /\ UNCHANGED <<vaultFile, token_cache>> ]_vars

\* ------------------------------------------------------------------- C2
\* C2: between operations the listing cache is empty or equal to what
\* list_tokens returns from the store, and a token_list that succeeded has
\* returned the tokens persisted in the store in sort_order order.
C2_CacheMatchesStore ==
    /\ IsSome(token_cache) => Unwrap(token_cache) = StoredTokens
    /\ (last.op = "token_list" /\ last.res.ok) => last.res.val = StoredTokens

\* ------------------------------------------------------------------- C3
\* C3: when a mutating command has returned success the listing cache is
\* empty, so that the next token_list reads the store.
C3_SuccessfulMutationEmptiesCache ==
    (last.op \in Mutators /\ last.res.ok) => token_cache = None

\* a delete has returned success and left one token in the store
C3_Witness ==
    /\ last.op = "token_delete"
    /\ last.res.ok
    /\ Len(StoredTokens) = 1
    /\ token_cache = None

\* ------------------------------------------------------------------- C4
\* the calls that have made some of their writes to the handle, the store
\* and the cache, and not yet all of them
Halfway(t) ==
    calls[t].pc \in {"open_path", "open_salts", "open_invalidate", "lock_invalidate",
                     "add_invalidate", "delete_invalidate", "increment_invalidate"}

\* thread t takes a step that reads or writes the handle or the cache (the
\* first step of vault_create and vault_unlock touches the files only)
AccessStep(t) ==
    /\ calls[t].pc # "returned"
    /\ calls'[t] # calls[t]
    /\ ~(calls[t].pc = "idle" /\ calls'[t].op \in {"vault_create", "vault_unlock"})

\* C4: the commands of several threads are serialized: no call takes a step
\* on the handle or the cache while another call is part-way through its
\* writes, and a token_list never returns a listing when the handle has been
\* dropped.
C4_Serialized ==
    [][ \A t \in Threads :
          /\ AccessStep(t) => \A u \in Threads \ {t} : ~Halfway(u)
          /\ (calls[t].pc # "returned" /\ calls'[t].pc = "returned"
              /\ calls'[t].op = "token_list" /\ last'.res.ok)
                => IsSome(vault) ]_vars

\* ------------------------------------------------------------------- C5
\* C5: after vault_create or vault_unlock returns success vault_is_locked
\* returns false and the cache is empty; after vault_lock returns,
\* vault_is_locked returns true and the cache is empty; only a successful
\* vault_create, vault_unlock or vault_lock changes whether a handle is
\* resident.
C5_Lifecycle ==
    [][ /\ (last'.op \in {"vault_create", "vault_unlock"} /\ last'.res.ok)
              => /\ IsLockedResult'.ok
                 /\ ~IsLockedResult'.val
                 /\ token_cache' = None
        /\ last'.op = "vault_lock"
              => /\ IsLockedResult'.ok
                 /\ IsLockedResult'.val
                 /\ token_cache' = None
        /\ IsSome(vault') # IsSome(vault)
              => /\ last'.op \in {"vault_create", "vault_unlock", "vault_lock"}
                 /\ last'.res.ok ]_vars

\* ------------------------------------------------------------------- C6
\* C6: whenever vault_lock has returned it has returned success, and
\* vault_is_locked then returns true.
C6_LockAlwaysSucceeds ==
    last.op = "vault_lock"
        => /\ last.res.ok
           /\ IsLockedResult.ok
           /\ IsLockedResult.val

\* ------------------------------------------------------------------- C7
\* C7: a vault_unlock that fails leaves the handle, the listing cache, the
\* path and salts in memory, the persisted salts and the vault file (so the
\* stored tokens, and the absence of a file) as they were.
C7_FailedUnlockChangesNothing ==
    [][ (last'.op = "vault_unlock" /\ ~last'.res.ok)
            => UNCHANGED <<vaultFile, saltsFile, vault, vault_path, salts,
                           token_cache>> ]_vars

\* a wrong password was refused while a handle was open over a cached,
\* non-empty listing
C7_Witness ==
    /\ last.op = "vault_unlock"
    /\ ~last.res.ok
    /\ last.res.err = "Wrong password or corrupted vault"
    /\ IsSome(vault)
    /\ IsSome(token_cache)
    /\ Len(StoredTokens) > 0

\* ------------------------------------------------------------------- C8
\* C8: vault_lock and vault_unlock leave the token listing of the store as
\* it was (ids, fields, counters, order), the listing read after a reopening
\* is that listing, and a token leaves the store only in a token_delete that
\* succeeds.
C8_TokensSurviveLockUnlock ==
    [][ /\ last'.op \in {"vault_lock", "vault_unlock"} => StoredTokens' = StoredTokens
        /\ (last'.op = "token_list" /\ last'.res.ok /\ token_cache = None)
              => last'.res.val = StoredTokens
        /\ ~(StoredIds \subseteq StoredIds')
              => (last'.op = "token_delete" /\ last'.res.ok) ]_vars

\* a vault holding two tokens has been locked and reopened
C8_Witness ==
    /\ last.op = "vault_unlock"
    /\ last.res.ok
    /\ Len(StoredTokens) = 2
    /\ StoredTokens[1].token_type # StoredTokens[2].token_type

\* ------------------------------------------------------------------- C9
\* C9: whenever a handle is open, get_token_secret of every stored token
\* returns the seed the token was added with.
C9_SecretRoundTrip ==
    (IsSome(vault) /\ IsSome(vaultFile))
        => \A id \in StoredIds :
              /\ get_token_secret(Db, Unwrap(vault).secret_key, id).ok
              /\ get_token_secret(Db, Unwrap(vault).secret_key, id).val = seeds[id]

\* the vault was reopened after the first of two tokens was deleted
C9_Witness ==
    /\ last.op = "vault_unlock"
    /\ last.res.ok
    /\ StoredIds = {2}
    /\ get_token_secret(Db, Unwrap(vault).secret_key, 2).val = seeds[2]

\* ------------------------------------------------------------------ C10
\* C10: every secret_encrypted in the store is the AEAD envelope of the
\* token's seed under K_sec (nonce, ciphertext, tag) and never the seed, and
\* the tokens list_tokens, get_token and token_list return have the fields
\* of Token only, with neither the seed nor the blob among them.
C10_OnlyEnvelopeStored ==
    /\ IsSome(vaultFile) =>
          \A k \in 1..Len(Db.tokens) :
             /\ Db.tokens[k].secret_encrypted # seeds[Db.tokens[k].id]
             /\ Len(Db.tokens[k].secret_encrypted)
                    = NONCE_SIZE + Len(seeds[Db.tokens[k].id]) + TAG_SIZE
             /\ decrypt(Db.tokens[k].secret_encrypted, StoreSecretKey).ok
             /\ decrypt(Db.tokens[k].secret_encrypted, StoreSecretKey).val
                    = seeds[Db.tokens[k].id]
             /\ DOMAIN Unwrap(get_token(Db, Db.tokens[k].id).val) = TokenFields
    /\ \A k \in 1..Len(StoredTokens) : DOMAIN StoredTokens[k] = TokenFields
    /\ (last.op = "token_list" /\ last.res.ok)
          => \A k \in 1..Len(last.res.val) : DOMAIN last.res.val[k] = TokenFields
    /\ {"secret", "secret_encrypted"} \cap TokenFields = {}

\* a listing of two stored tokens has been returned
C10_Witness ==
    /\ last.op = "token_list"
    /\ last.res.ok
    /\ Len(last.res.val) = 2
    /\ Len(Db.tokens) = 2

\* ------------------------------------------------------------------ C11
\* C11: the two salts vault_create persists are distinct, and whenever a
\* handle is open the key of the store (K_db) differs from the secret key of
\* the handle (K_sec).  (Two draws of the CSPRNG are taken to differ, and
\* the KDF to send different salts to different keys.)
C11_KeysDiffer ==
    /\ IsSome(saltsFile)
          => Unwrap(saltsFile).sqlcipher_salt # Unwrap(saltsFile).secret_salt
    /\ IsSome(salts) => Unwrap(salts).sqlcipher_salt # Unwrap(salts).secret_salt
    /\ (IsSome(vault) /\ IsSome(vaultFile)) => Db.key # Unwrap(vault).secret_key

\* the vault has been reopened by vault_unlock
C11_Witness ==
    /\ last.op = "vault_unlock"
    /\ last.res.ok
    /\ IsSome(vault)
    /\ Db.key # Unwrap(vault).secret_key
    /\ Unwrap(salts) = Unwrap(saltsFile)

\* --------------------------------------------------- vocabulary (Vault)
\* the ids of the rows of table tokens
RowIds(db) == {db.tokens[k].id : k \in 1..Len(db.tokens)}

\* the row of table tokens with the given id
RowOf(db, id) == db.tokens[CHOOSE k \in 1..Len(db.tokens) : db.tokens[k].id = id]

\* the ids of a listing, in its order
ListedIds(db) == [k \in 1..Len(list_tokens(db).val) |-> list_tokens(db).val[k].id]

\* ------------------------------------------------------------------ C12
\* C12: an add_token that succeeds gives the new token a sort_order above
\* that of every stored token, 1 + the largest of them (0 in an empty
\* vault), and list_tokens then returns the new token last.
C12_AddedTokenIsLast ==
    [][ (last'.op = "add_token" /\ last'.res.ok)
            => /\ \A k \in 1..Len(Db.tokens) :
                     Db.tokens[k].sort_order < last'.res.val.sort_order
               /\ \/ Len(Db.tokens) = 0 /\ last'.res.val.sort_order = 0
                  \/ \E k \in 1..Len(Db.tokens) :
                        last'.res.val.sort_order = Db.tokens[k].sort_order + 1
               /\ Len(list_tokens(Db').val) = Len(Db.tokens) + 1
               /\ list_tokens(Db').val[Len(Db.tokens) + 1] = last'.res.val ]_vars

\* a token was added to a vault where a reorder of part of the tokens had
\* left two tokens on one position
C12_Witness ==
    /\ last.op = "add_token"
    /\ last.res.ok
    /\ Len(Db.tokens) = 3
    /\ Db.tokens[1].sort_order = Db.tokens[2].sort_order
    /\ ListedIds(Db)[3] = last.res.val.id

\* ------------------------------------------------------------------ C13
\* C13: after reorder_tokens(perm), perm a permutation of the ids of all
\* stored tokens, the token perm[i] has sort_order i (counted from 0) and
\* list_tokens returns the tokens in the order of perm.
C13_ReorderFollowsPermutation ==
    [][ (/\ last'.op = "reorder_tokens"
         /\ Len(last'.arg) = Len(Db.tokens)
         /\ {last'.arg[i] : i \in 1..Len(last'.arg)} = RowIds(Db))
            => /\ last'.res.ok
               /\ \A i \in 1..Len(last'.arg) :
                     RowOf(Db', last'.arg[i]).sort_order = i - 1
               /\ ListedIds(Db') = last'.arg ]_vars

\* three tokens were put in the order 3, 1, 2
C13_Witness ==
    /\ last.op = "reorder_tokens"
    /\ last.res.ok
    /\ last.arg = <<3, 1, 2>>
    /\ RowIds(Db) = {1, 2, 3}
    /\ ListedIds(Db) = <<3, 1, 2>>

\* ------------------------------------------------------------------ C14
\* C14: reorder_tokens(ids) succeeds whatever the ids, adds and removes no
\* row, leaves every row whose id is not in ids as it was, and changes at
\* most sort_order and updated_at of the others.
C14_ReorderFrame ==
    [][ last'.op = "reorder_tokens"
            => /\ last'.res.ok
               /\ Len(Db'.tokens) = Len(Db.tokens)
               /\ \A k \in 1..Len(Db.tokens) :
                     IF \E i \in 1..Len(last'.arg) : last'.arg[i] = Db.tokens[k].id
                     THEN Db'.tokens[k] =
                             [Db.tokens[k] EXCEPT !.sort_order = Db'.tokens[k].sort_order,
                                                  !.updated_at = Db'.tokens[k].updated_at]
                     ELSE Db'.tokens[k] = Db.tokens[k]
               /\ Db'.migrations = Db.migrations
               /\ Db'.vault_meta = Db.vault_meta ]_vars

\* a reorder was given the id of the second of two stored tokens and an id
\* that is not stored; the first token kept the position it shares with the
\* second now
C14_Witness ==
    /\ last.op = "reorder_tokens"
    /\ last.res.ok
    /\ last.arg = <<2, 3>>
    /\ RowIds(Db) = {1, 2}
    /\ Db.tokens[1].sort_order = 0
    /\ Db.tokens[2].sort_order = 0
    /\ Db.tokens[2].updated_at > Db.tokens[1].updated_at

\* ------------------------------------------------------------------ C15
\* C15: list_tokens returns one token for every stored row, each row once,
\* in non-decreasing sort_order.
C15_ListIsSortedAndComplete ==
    /\ list_tokens(Db).ok
    /\ Len(list_tokens(Db).val) = Len(Db.tokens)
    /\ \A k \in 1..Len(Db.tokens) :
          Cardinality({j \in 1..Len(list_tokens(Db).val) :
                          list_tokens(Db).val[j] = RowToken(Db.tokens[k])}) = 1
    /\ \A j \in 1..(Len(list_tokens(Db).val) - 1) :
          list_tokens(Db).val[j].sort_order <= list_tokens(Db).val[j + 1].sort_order

\* three tokens are listed in another order than they were inserted in, two
\* of them on one position
C15_Witness ==
    /\ Len(Db.tokens) = 3
    /\ ListedIds(Db) = <<2, 3, 1>>
    /\ RowOf(Db, 2).sort_order = RowOf(Db, 3).sort_order

\* ------------------------------------------------------------------ C16
\* C16: delete_token(id) succeeds, removes the row of that id and no other,
\* and leaves the other rows, their fields and their listing order as they
\* were; with an id that is not stored it changes nothing.
C16_DeleteFrame ==
    [][ last'.op = "delete_token"
            => /\ last'.res.ok
               /\ Db'.tokens = SelectSeq(Db.tokens, LAMBDA row : row.id # last'.arg)
               /\ list_tokens(Db').val
                     = SelectSeq(list_tokens(Db).val, LAMBDA tok : tok.id # last'.arg)
               /\ last'.arg \notin RowIds(Db) => Db' = Db ]_vars

\* a token that had been deleted was deleted once more, two tokens remaining
C16_Witness ==
    /\ last.op = "delete_token"
    /\ last.res.ok
    /\ last.arg = 1
    /\ RowIds(Db) = {2, 3}
    /\ writes = MaxCalls

\* ------------------------------------------------------------------ C17
\* C17: update_token(id, issuer, account) on a stored id sets issuer and
\* account of that token, sets its updated_at to the time of the call, and
\* leaves its other columns and every other row as they were.
C17_UpdateFrame ==
    [][ (last'.op = "update_token" /\ last'.arg.id \in RowIds(Db))
            => /\ last'.res.ok
               /\ Len(Db'.tokens) = Len(Db.tokens)
               /\ \A k \in 1..Len(Db.tokens) :
                     IF Db.tokens[k].id = last'.arg.id
                     THEN Db'.tokens[k] =
                             [Db.tokens[k] EXCEPT !.issuer = last'.arg.issuer,
                                                  !.account = last'.arg.account,
                                                  !.updated_at = clock']
                     ELSE Db'.tokens[k] = Db.tokens[k] ]_vars

\* the second of two tokens was updated at a later time than it was added
C17_Witness ==
    /\ last.op = "update_token"
    /\ last.res.ok
    /\ last.arg.id = 2
    /\ RowIds(Db) = {1, 2}
    /\ RowOf(Db, 2).issuer = "Forge"
    /\ RowOf(Db, 2).updated_at > RowOf(Db, 2).created_at
    /\ RowOf(Db, 1).issuer # "Forge"

\* ------------------------------------------------------------------ C18
\* C18: update_token and increment_counter called with an id that is not
\* stored return an error that begins "Token not found" and leave the
\* database as it was.
C18_MissingIdIsAnError ==
    [][ /\ (last'.op = "update_token" /\ last'.arg.id \notin RowIds(Db))
              => /\ ~last'.res.ok
                 /\ last'.res.err = "Token not found"
                 /\ Db' = Db
        /\ (last'.op = "increment_counter" /\ last'.arg \notin RowIds(Db))
              => /\ ~last'.res.ok
                 /\ starts_with(last'.res.err, "Token not found")
                 /\ Db' = Db ]_vars

\* increment_counter was refused for the id of a deleted token while a
\* token with a counter was stored
C18_Witness ==
    /\ last.op = "increment_counter"
    /\ ~last.res.ok
    /\ last.arg = 1
    /\ RowIds(Db) = {2}
    /\ RowOf(Db, 2).counter = 1

Incremented(t) ==
    /\ calls[t].op = "token_increment_counter"
    /\ calls[t].pc \in {"increment_invalidate", "returned"}
    /\ calls[t].id # 0

\* the state part of C20
IncrementsInOrder ==
    \* overlapping calls on one id hold distinct values
    /\ \A t1, t2 \in Threads :
          (t1 # t2 /\ Incremented(t1) /\ Incremented(t2) /\ calls[t1].id = calls[t2].id)
              => calls[t1].counter # calls[t2].counter
    \* the stored counter has every value handed out or returned behind it
    /\ \A t \in Threads :
          (Incremented(t) /\ IsSome(vaultFile) /\ calls[t].id \in RowIds(Db))
              => RowOf(Db, calls[t].id).counter >= calls[t].counter
    /\ \A id \in Ids :
          (IsSome(vaultFile) /\ id \in RowIds(Db)) => RowOf(Db, id).counter >= acked[id]
    \* a call that has returned observed at least what had been returned
    \* when it began
    /\ \A t \in Threads :
          calls[t].pc = "returned"
              => /\ calls[t].op = "token_list"
                    => \A k \in 1..Len(calls[t].tokens) :
                          calls[t].tokens[k].counter >= calls[t].floor[calls[t].tokens[k].id]
                 /\ (calls[t].op = "otp_generate_hotp" /\ calls[t].id # 0)
                    => calls[t].counter >= calls[t].floor[calls[t].id]
                 /\ Incremented(t)
                    => calls[t].counter > calls[t].floor[calls[t].id]

\* C20: token_increment_counter is linearizable.  Every call takes the
\* stored counter from c to c + 1 in one step and returns c + 1, and nothing
\* else changes a stored counter, so n overlapping calls on a counter c
\* return the n distinct values c+1..c+n and leave it at c+n; a token_list,
\* otp_generate_hotp or token_increment_counter that begins after an
\* increment returned v observes a counter of at least v.
C20_IncrementLinearizable ==
    [][ /\ \A t \in Threads :
              /\ (calls[t].pc = "idle" /\ calls'[t].pc = "increment_invalidate")
                    => /\ calls'[t].id \in RowIds(Db)
                       /\ calls'[t].counter = RowOf(Db, calls'[t].id).counter + 1
                       /\ RowOf(Db', calls'[t].id).counter = calls'[t].counter
              /\ (calls[t].pc = "increment_invalidate" /\ calls'[t].pc = "returned")
                    => /\ last' = [op |-> "token_increment_counter",
                                   res |-> Ok(calls[t].counter)]
                       /\ calls'[t].counter = calls[t].counter
                       /\ calls'[t].id = calls[t].id
        /\ (IsSome(vaultFile) /\ IsSome(vaultFile'))
              => \A id \in RowIds(Db) \cap RowIds(Db') :
                    \/ RowOf(Db', id).counter = RowOf(Db, id).counter
                    \/ \E t \in Threads :
                          /\ calls[t].pc = "idle"
                          /\ calls'[t].pc = "increment_invalidate"
                          /\ calls'[t].id = id
        /\ IncrementsInOrder' ]_<<calls, vaultFile, acked>>

\* two calls on token 1 overlapped: the one that returned 2 began before the
\* other had returned 1; a token_list that began after both had returned
\* lists the counter 2
C20_Witness ==
    /\ calls[1].pc = "returned"
    /\ calls[1].op = "token_increment_counter"
    /\ calls[1].id = 1
    /\ calls[1].counter = 2
    /\ calls[1].floor[1] = 0
    /\ acked[1] = 2
    /\ calls[2].pc = "returned"
    /\ calls[2].op = "token_list"
    /\ calls[2].floor[1] = 2
    /\ Len(calls[2].tokens) = 1
    /\ calls[2].tokens[1].counter = 2

\* ------------------------------------------------------------------ C21
\* the guards of AppState thread t holds while it runs the statement it is
\* at: the one the statement locks, and the vault guard `guard` of token_list
\* (195), which is alive until the function returns (204)
GuardsAt(t) ==
    IF calls[t].pc = "list_read" THEN {"vault"}
    ELSE IF calls[t].pc = "list_populate" THEN {"vault", "token_cache"}
    ELSE IF calls[t].pc = "open_vault" THEN {"vault"}
    ELSE IF calls[t].pc = "open_path" THEN {"vault_path"}
    ELSE IF calls[t].pc = "open_salts" THEN {"salts"}
    ELSE IF calls[t].pc \in {"open_invalidate", "lock_invalidate", "add_invalidate",
                             "delete_invalidate", "increment_invalidate"}
    THEN {"token_cache"}
    ELSE { }

\* C21: no command takes one of the guards of the handle, the cache, the
\* path or the salts while it holds another: a thread holds at most one
\* guard at every point of every command.
C21_OneGuardPerThread ==
    \A t \in Threads : Cardinality(GuardsAt(t)) <= 1

\* ------------------------------------------------------------------ C22
\* thread t is inside a command: it has started and has not returned
InCall(t) == calls[t].pc \notin {"idle", "returned"}

RECURSIVE ParsedPrefix(_, _)
ParsedPrefix(uris, k) ==
    IF k > Len(uris) \/ ~ParseUri(uris[k]).ok THEN k - 1
    ELSE ParsedPrefix(uris, k + 1)

\* the listed token agrees with the NewToken new_token
TokenIsOf(token, new_token) ==
    /\ token.issuer = new_token.issuer
    /\ token.account = new_token.account
    /\ token.algorithm = new_token.algorithm
    /\ token.digits = new_token.digits
    /\ token.token_type = new_token.token_type
    /\ token.period = new_token.period
    /\ token.counter = new_token.counter

\* C23: import_uris takes the URIs in order.  If all parse, it adds one
\* token for each, after the tokens listed before and in input order, and
\* returns their number; if the first one that does not parse is at index
\* k (from 0), it returns that URI's error, having added the tokens of the k
\* URIs before it and none of a later one.
C23_ImportInOrder ==
    [][ last'.op = "import_uris"
            => /\ IF ParsedPrefix(last'.arg, 1) = Len(last'.arg)
                  THEN last'.res = Ok(Len(last'.arg))
                  ELSE /\ ~last'.res.ok
                       /\ last'.res = ParseUri(last'.arg[ParsedPrefix(last'.arg, 1) + 1])
               /\ Len(Db'.tokens) = Len(Db.tokens) + ParsedPrefix(last'.arg, 1)
               /\ SubSeq(Db'.tokens, 1, Len(Db.tokens)) = Db.tokens
               /\ SubSeq(list_tokens(Db').val, 1, Len(Db.tokens)) = list_tokens(Db).val
               /\ \A j \in 1..ParsedPrefix(last'.arg, 1) :
                     /\ list_tokens(Db').val[Len(Db.tokens) + j].id = next_id + j - 1
                     /\ TokenIsOf(list_tokens(Db').val[Len(Db.tokens) + j],
                                Unwrap(ParseUri(last'.arg[j]).val))
                     /\ get_token_secret(Db', Unwrap(vault).secret_key, next_id + j - 1)
                           = Ok(Unwrap(ParseUri(last'.arg[j]).val).secret)
      ]_<<writes, vaultFile>>

\* a batch whose second URI does not parse left the token of its first URI
\* behind a token stored before, and none of its third
C23_Witness ==
    /\ last.op = "import_uris"
    /\ ~last.res.ok
    /\ last.arg = <<UriHotp, UriBad, UriTotp>>
    /\ ListedIds(Db) = <<1, 2>>
    /\ RowOf(Db, 2).type = "hotp"
    /\ RowOf(Db, 2).counter = 1

\* ------------------------------------------------------------------ C24
\* the step imported the source vault filled with fill: it returned the
\* number of the source's tokens and appended them in the order the source
\* lists them
RoundTripOf(fill) ==
    /\ last'.res = Ok(Len(fill))
    /\ Len(Db'.tokens) = Len(Db.tokens) + Len(fill)
    /\ SubSeq(list_tokens(Db').val, 1, Len(Db.tokens)) = list_tokens(Db).val
    /\ \A j \in 1..Len(fill) :
          /\ list_tokens(Db').val[Len(Db.tokens) + j].issuer
                = list_tokens(SourceDb(fill)).val[j].issuer
          /\ list_tokens(Db').val[Len(Db.tokens) + j].token_type
                = list_tokens(SourceDb(fill)).val[j].token_type
          /\ get_token_secret(Db', Unwrap(vault).secret_key,
                              list_tokens(Db').val[Len(Db.tokens) + j].id)
                = get_token_secret(SourceDb(fill), SourceSecretKey,
                                   list_tokens(SourceDb(fill)).val[j].id)

\* the blob is the salt followed by the envelope of the JSON URI list
BlobLayoutOf(fill) ==
    /\ SubSeq(ExportOf(fill, "xp"), 1, EXPORT_SALT_SIZE) = generate_salt(200)
    /\ decrypt(SubSeq(ExportOf(fill, "xp"), EXPORT_SALT_SIZE + 1, Len(ExportOf(fill, "xp"))),
               derive_key("xp", generate_salt(200)).val)
          = Ok(JsonOfStrings(export_uris(SourceDb(fill), SourceSecretKey).val))

\* C24: for any source vault and export password, importing the blob of
\* export_encrypted with that password into any unlocked vault returns the
\* number of tokens of the source and appends that many tokens in the order
\* the source lists them; the blob is the 16-byte salt followed by the AEAD
\* envelope of the JSON URI list.
C24_BackupRoundTrip ==
    [][ last'.op = "import_encrypted"
            => \A fill \in SourceFills :
                  (last'.arg.data = ExportOf(fill, "xp") /\ last'.arg.password = "xp")
                      => RoundTripOf(fill) /\ BlobLayoutOf(fill) ]_<<writes, vaultFile>>

\* ------------------------------------------------------------------ C25
\* the blobs that were exported under the password "xp"
BlobsOfXp == SourceBlobs \cup (ImportBlobs \ { <<1, 2, 3>> })

\* the error a blob is rejected with before its URI list is decoded, if any
RejectionOf(data, password) ==
    IF Len(data) < EXPORT_SALT_SIZE THEN Some("Invalid export file")
    ELSE IF Len(data) - EXPORT_SALT_SIZE < NONCE_SIZE + TAG_SIZE
    THEN Some("Ciphertext too short")
    ELSE IF data \in BlobsOfXp /\ password # "xp"
    THEN Some("Decryption failed: authentication error")
    ELSE None

\* C25: import_encrypted adds no token when the blob is rejected before its
\* URI list is decoded: a blob shorter than 16 bytes fails with "Invalid
\* export file", a blob whose envelope is shorter than 28 bytes with
\* "Ciphertext too short", a blob opened with another password than the one
\* it was exported under with the authentication error; in each case the
\* tokens of the vault are unchanged.
C25_RejectedBlobAddsNothing ==
    [][ (last'.op = "import_encrypted"
         /\ IsSome(RejectionOf(last'.arg.data, last'.arg.password)))
            => /\ last'.res = Err(Unwrap(RejectionOf(last'.arg.data, last'.arg.password)))
               /\ Db'.tokens = Db.tokens
               /\ next_id' = next_id ]_<<writes, vaultFile>>

C25_Witness ==
    /\ last.op = "import_encrypted"
    /\ last.arg.data = ExportOf(<<SourceTotp, SourceHotp>>, "xp")
    /\ last.arg.password = "xq"
    /\ last.res = Err("Decryption failed: authentication error")
    /\ Len(Db.tokens) = 2
    /\ writes = 3

\* ------------------------------------------------------------------ C26
\* parsed is a token with the fields of the listed token and its raw secret
SameToken(parsed, token, secret) ==
    /\ parsed.ok
    /\ IsSome(parsed.val)
    /\ Unwrap(parsed.val).issuer = token.issuer
    /\ Unwrap(parsed.val).account = token.account
    /\ Unwrap(parsed.val).token_type = token.token_type
    /\ Unwrap(parsed.val).algorithm = token.algorithm
    /\ Unwrap(parsed.val).digits = token.digits
    /\ Unwrap(parsed.val).period = token.period
    /\ Unwrap(parsed.val).counter = token.counter
    /\ Ok(Unwrap(parsed.val).secret) = secret

\* the k-th URI of the export parses to the k-th token of the listing
RoundTripAt(uris, k) ==
    SameToken(ParseUri(uris[k]), list_tokens(Db).val[k],
              get_token_secret(Db, Unwrap(vault).secret_key, list_tokens(Db).val[k].id))

\* C26: for every token stored in the vault, of kind totp or hotp and with
\* a supported algorithm and digits, parsing the URI export_uris emits for
\* it yields a token with the same issuer, account, kind, algorithm,
\* digits, period, counter and raw secret.
C26_UriRoundTrip ==
    [][ last'.op = "export_uris"
            => /\ last'.res.ok
               /\ Len(last'.res.val) = Len(list_tokens(Db).val)
               /\ \A k \in 1..Len(last'.res.val) : RoundTripAt(last'.res.val, k)
      ]_<<writes, vaultFile>>

\* ------------------------------------------------------------------ C27
\* the step imported the URI with the given digits and period
Probed(digits, period) ==
    /\ last'.op = "import_uris"
    /\ last'.arg = <<ProbeUri(digits, period)>>

\* the token the step stored
StoredByStep == Db'.tokens[Len(Db'.tokens)]

\* C27: parse_otpauth_uri rejects every URI whose digits value is anything
\* other than 6 or 8 and every URI whose period value is 0; the defaults,
\* digits 6 and period 30, are used only when the key is absent from the
\* query.
C27_DigitsAndPeriodChecked ==
    [][ \A digits \in DigitsGiven, period \in PeriodGiven :
           Probed(digits, period)
              => /\ (IsSome(digits) /\ Unwrap(digits) \notin {"6", "8"}) => ~last'.res.ok
                 /\ (IsSome(period) /\ Unwrap(period) = "0") => ~last'.res.ok
                 /\ last'.res.ok
                       => /\ Len(Db'.tokens) = Len(Db.tokens) + 1
                          /\ StoredByStep.digits
                                = (IF IsSome(digits) THEN Unwrap(ParseUint(Unwrap(digits)))
                                   ELSE DEFAULT_DIGITS)
                          /\ IsSome(period) => IsSome(ParseUint(Unwrap(period)))
                          /\ StoredByStep.period
                                = (IF IsSome(period) THEN Unwrap(ParseUint(Unwrap(period)))
                                   ELSE DEFAULT_PERIOD)
      ]_<<writes, vaultFile>>

\* ------------------------------------------------------------------ C28
\* C28: every token persisted in the vault, whichever command added it,
\* has digits 6 or 8, a period greater than 0, an algorithm among SHA1,
\* SHA256 and SHA512 and a kind among totp and hotp.
C28_StoredTokensSupported ==
    IsSome(vaultFile)
        => \A k \in 1..Len(Db.tokens) :
              /\ Db.tokens[k].digits \in {6, 8}
              /\ Db.tokens[k].period > 0
              /\ Db.tokens[k].algorithm \in {"SHA1", "SHA256", "SHA512"}
              /\ Db.tokens[k].type \in {TOKEN_TYPE_TOTP, TOKEN_TYPE_HOTP}

\* ------------------------------------------------------------------ C29
\* the commands that bring the store up: Vault::create and Vault::open
BringUps == {"vault_create", "vault_unlock"}

\* C29: after any number of bring-ups of the same store the migrations
\* table holds the single version 1, the seed rows of vault_meta keep their
\* first values and the tokens there are untouched: a second or later run
\* of run_migrations changes nothing.
C29_MigrationIdempotent ==
    [][ IsSome(vaultFile')
            => /\ {m.version : m \in Db'.migrations} = {SCHEMA_VERSION}
               /\ Cardinality(Db'.migrations) = 1
               /\ get_current_version(Db') = 1
               /\ IsSome(vaultFile)
                     => /\ Db'.migrations = Db.migrations
                        /\ Db'.vault_meta = Db.vault_meta
                        /\ last'.op \in BringUps => Db'.tokens = Db.tokens
      ]_vaultFile

C29_Witness ==
    /\ last.op = "vault_unlock"
    /\ last.res.ok
    /\ clock = 1
    /\ Len(Db.tokens) = 1
    /\ Db.tokens[1].created_at = 1
    /\ Db.migrations = {[version |-> 1, applied_at |-> 0]}
    /\ [key |-> "vault_created_at", value |-> 0] \in Db.vault_meta

\* ------------------------------------------------------------------ C30
\* C30: for every plaintext, the empty one too, every key and every nonce
\* encrypt may draw, decrypt of the envelope under the same key returns the
\* plaintext; under a different key it fails with the authentication error.
C30_AeadRoundTrip ==
    [][ /\ last'.op = "encrypt"
            => /\ last'.res.ok
               /\ Len(last'.res.val) = NONCE_SIZE + Len(last'.arg.plaintext) + TAG_SIZE
        /\ last'.op = "decrypt"
            => IF last'.arg.key = last'.arg.sealed_under
               THEN last'.res = Ok(last'.arg.plaintext)
               ELSE last'.res = Err("Decryption failed: authentication error")
      ]_writes

C30_Witness ==
    /\ last.op = "decrypt"
    /\ last.arg.plaintext = << >>
    /\ last.arg.key = last.arg.sealed_under
    /\ last.arg.encrypted = encrypt(<< >>, [i \in 1..KEY_LENGTH |-> i],
                                    [i \in 1..NONCE_SIZE |-> 250 + i]).val
    /\ last.res = Ok(<< >>)
    /\ writes = 3

\* ------------------------------------------------------------------ C31
\* C31: the envelope is nonce (12), ciphertext (N), tag (16): encrypt of N
\* bytes returns N + 28 bytes; decrypt returns "Ciphertext too short" for
\* the inputs shorter than 28 bytes and for no other, and for an input of
\* 28 bytes or more either a plaintext 28 bytes shorter than the input or
\* the authentication error.
C31_EnvelopeLayout ==
    [][ /\ last'.op = "encrypt"
            => /\ last'.res.ok
               /\ Len(last'.res.val) = Len(last'.arg.plaintext) + 28
        /\ last'.op = "decrypt_bytes"
            => /\ (last'.res = Err("Ciphertext too short"))
                     <=> (Len(last'.arg.encrypted) < 28)
               /\ Len(last'.arg.encrypted) >= 28
                     => IF last'.res.ok
                        THEN Len(last'.res.val) = Len(last'.arg.encrypted) - 28
                        ELSE last'.res = Err("Decryption failed: authentication error")
      ]_writes

\* an envelope of exactly 28 bytes has been opened to the empty plaintext
C31_Witness ==
    /\ last.op = "decrypt_bytes"
    /\ Len(last.arg.encrypted) = 28
    /\ last.arg.encrypted = last.arg.envelope
    /\ last.res = Ok(<< >>)

\* ------------------------------------------------------------------ C32
\* the HMAC hotp::generate computes for a call: its length, the offset the
\* dynamic truncation takes from its last byte, and the value it reads there
TruncationOf(hmac_result) ==
    [len |-> Len(hmac_result),
     offset |-> hmac_result[Len(hmac_result)] % 16,
     binary |-> (hmac_result[(hmac_result[Len(hmac_result)] % 16) + 1] % 128) * 16777216
                + hmac_result[(hmac_result[Len(hmac_result)] % 16) + 2] * 65536
                + hmac_result[(hmac_result[Len(hmac_result)] % 16) + 3] * 256
                + hmac_result[(hmac_result[Len(hmac_result)] % 16) + 4]]

Truncations ==
    [secret \in OtpSecrets, counter \in StepCounters, algorithm \in OtpAlgorithms |->
        TruncationOf(Hmac(algorithm, secret, to_be_bytes(counter)))]

TruncatedAt(arg) == Truncations[arg.secret, arg.counter, arg.algorithm]

\* C32: for every HMAC output of 20, 32 or 64 bytes, every counter and 6
\* or 8 digits, the dynamic truncation reads the four bytes from offset
\* (last byte & 0x0F) inside the buffer, the value has 31 bits, and the code
\* is that value modulo 10^d, padded with zeros on the left to d ASCII
\* digits; for other d generation is rejected.
C32_DynamicTruncation ==
    [][ last'.op = "hotp_generate"
            => IF last'.arg.digits \in {6, 8}
               THEN /\ TruncatedAt(last'.arg).len \in {20, 32, 64}
                    /\ TruncatedAt(last'.arg).offset + 4 <= TruncatedAt(last'.arg).len
                    /\ TruncatedAt(last'.arg).binary >= 0
                    /\ TruncatedAt(last'.arg).binary <= 2147483647
                    /\ last'.res.ok
                    /\ Len(last'.res.val) = last'.arg.digits
                    /\ \A i \in 1..Len(last'.res.val) : IsDigit(CharAt(last'.res.val, i))
                    /\ DigitsValue(last'.res.val)
                          = TruncatedAt(last'.arg).binary % Pow(10, last'.arg.digits)
               ELSE IsPanic(last'.res)
      ]_writes

\* a code that needed padding: the value modulo 10^8 has fewer than 8 digits
C32_Witness ==
    /\ last.op = "hotp_generate"
    /\ last.arg.digits = 8
    /\ last.res.ok
    /\ CharAt(last.res.val, 1) = "0"
    /\ Len(last.res.val) = 8

\* ------------------------------------------------------------------ C33
\* C33: for every secret, time, positive step, digits and algorithm, the
\* TOTP code is the HOTP code of the counter floor(time / step), so two
\* times in the same step give the same code.
C33_TotpIsHotpOfStep ==
    [][ last'.op = "totp_generate"
            => /\ last'.res
                    = HotpCodes[last'.arg.secret, last'.arg.time \div last'.arg.period,
                                last'.arg.digits, last'.arg.algorithm]
               /\ \A t2 \in OtpTimes :
                     (t2 \div last'.arg.period = last'.arg.time \div last'.arg.period)
                        => TotpCodes[last'.arg.secret, t2, last'.arg.period,
                                     last'.arg.algorithm] = last'.res
      ]_writes

\* the code at time 59 with step 30, the last second of the step begun at 30
C33_Witness ==
    /\ last.op = "totp_generate"
    /\ last.arg.time = 59
    /\ last.arg.period = 30
    /\ last.res.ok
    /\ last.res = TotpCodes[last.arg.secret, 30, 30, last.arg.algorithm]
    /\ last.res # TotpCodes[last.arg.secret, 60, 30, last.arg.algorithm]

\* ------------------------------------------------------------------ C34
\* C34: for every time and positive step, time_remaining is step - (time
\* mod step): it lies in 1..step, is step and never 0 when time is a
\* multiple of step, and within a step goes down by 1 each second.
C34_TimeRemaining ==
    [][ last'.op = "time_remaining"
            => /\ last'.res = Ok(last'.arg.period - (last'.arg.time % last'.arg.period))
               /\ last'.res.val \in 1..last'.arg.period
               /\ (last'.arg.time % last'.arg.period = 0)
                     => last'.res.val = last'.arg.period
               /\ ((last'.arg.time + 1) % last'.arg.period # 0)
                     => RemainingTimes[last'.arg.time + 1, last'.arg.period].val
                           = last'.res.val - 1
      ]_writes

\* time_remaining(60, 30) returned 30
C34_Witness ==
    /\ last.op = "time_remaining"
    /\ last.arg.time = 60
    /\ last.arg.period = 30
    /\ last.res = Ok(30)

\* ------------------------------------------------------------------ C35
\* test_rfc4226_vectors: the codes for counters 0..9
Rfc4226Codes ==
    <<"755224", "287082", "359152", "969429", "338314", "254676", "287922", "162583",
      "399871", "520489">>

\* test_rfc6238_vectors_8_digits: the codes for SHA1, SHA256 and SHA512
Rfc6238Codes(time) ==
    IF time = 59 THEN <<"94287082", "46119246", "90693936">>
    ELSE IF time = 1111111109 THEN <<"07081804", "68084774", "25091201">>
    ELSE IF time = 1111111111 THEN <<"14050471", "67062674", "99943326">>
    ELSE IF time = 1234567890 THEN <<"89005924", "91819424", "93441116">>
    ELSE <<"69279037", "90698825", "38618901">>

\* the codes of the same test at time 20000000000
Rfc6238LastCodes == <<"65353130", "77737706", "47863826">>

AlgorithmIndex(algorithm) ==
    IF algorithm = "SHA1" THEN 1 ELSE IF algorithm = "SHA256" THEN 2 ELSE 3

\* C35: HOTP with the seed "12345678901234567890", SHA-1 and 6 digits gives
\* the RFC 4226 codes for counters 0..9, and TOTP with step 30 and 8 digits
\* gives the RFC 6238 Appendix B codes for SHA-1, SHA-256 and SHA-512; the
\* vector at time 20000000000 is generated from its step, 666666666.
C35_RfcVectors ==
    [][ /\ (last'.op = "hotp_generate" /\ last'.arg.digits = 6)
              => last'.res = Ok(Rfc4226Codes[last'.arg.counter + 1])
        /\ (last'.op = "hotp_generate" /\ last'.arg.digits = 8)
              => last'.res = Ok(Rfc6238LastCodes[AlgorithmIndex(last'.arg.algorithm)])
        /\ last'.op = "totp_generate"
              => last'.res = Ok(Rfc6238Codes(last'.arg.time)
                                   [AlgorithmIndex(last'.arg.algorithm)])
      ]_writes

\* the SHA-512 code at time 59 was generated
C35_Witness ==
    /\ last.op = "totp_generate"
    /\ last.arg.time = 59
    /\ last.arg.algorithm = "SHA512"
    /\ last.res = Ok("90693936")

\* ------------------------------------------------------------------ C36
\* vault_unlock(password) gets past set_key on this vault file with these
\* persisted salts
UnlocksWith(password, file, salts_file) ==
    /\ IsSome(file)
    /\ IsSome(salts_file)
    /\ derive_key_pair(password, Unwrap(salts_file).sqlcipher_salt,
                       Unwrap(salts_file).secret_salt).ok
    /\ set_key(Unwrap(file),
               derive_key_pair(password, Unwrap(salts_file).sqlcipher_salt,
                               Unwrap(salts_file).secret_salt).val[1]).ok

\* C36: vault_create called when a vault file exists, the facade Locked or
\* Unlocked, fails and leaves the vault file (so the stored tokens), the
\* persisted salts and the handle as they were, and a password that
\* unlocked the vault before the call unlocks it after.
C36_CreateKeepsExistingVault ==
    [][ (last'.op = "vault_create" /\ IsSome(vaultFile))
            => /\ ~last'.res.ok
               /\ UNCHANGED <<vaultFile, saltsFile, vault>>
               /\ \A password \in Passwords :
                     UnlocksWith(password, vaultFile, saltsFile)
                        => UnlocksWith(password, vaultFile', saltsFile')
      ]_vars

\* vault_create was refused over an open vault that holds a token and that
\* the owner's password unlocks
C36_Witness ==
    /\ last.op = "vault_create"
    /\ ~last.res.ok
    /\ IsSome(vault)
    /\ Len(StoredTokens) > 0
    /\ UnlocksWith(OwnerPassword, vaultFile, saltsFile)

\* ------------------------------------------------------------------ C37
\* C37: otp_generate_totp and otp_generate_hotp return a code or an error
\* value for every token the facade can have stored: they never trip the
\* digits assertion of hotp::generate and never divide by a zero period in
\* totp::generate while they hold the vault guard.
C37_GenerationNeverPanics ==
    last.op \in {"otp_generate_totp", "otp_generate_hotp"} => ~IsPanic(last.res)

\* ------------------------------------------------------------------ C38
\* no two rows of the token table share a sort_order
SortOrdersDistinct(db) ==
    \A i, j \in 1..Len(db.tokens) :
        i # j => db.tokens[i].sort_order # db.tokens[j].sort_order

\* id_order names every stored id once and nothing else
FullPermutation(id_order, db) ==
    /\ Len(id_order) = Len(db.tokens)
    /\ {id_order[i] : i \in 1..Len(id_order)} = RowIds(db)

\* C38: as long as every reorder_tokens call is given a full permutation of
\* the stored ids, add, delete, update, increment_counter, import and
\* reorder take a table whose sort_order values are pairwise distinct to a
\* table whose sort_order values are pairwise distinct; the empty table the
\* store starts with is one.
C38_SortOrdersStayDistinct ==
    [][ ( /\ SortOrdersDistinct(Db)
          /\ (last'.op = "reorder_tokens" => FullPermutation(last'.arg, Db)) )
            => SortOrdersDistinct(Db')
      ]_<<writes, vaultFile>>

\* a token was added behind two tokens that a reorder had swapped
C38_Witness ==
    /\ last.op = "add_token"
    /\ last.res.ok
    /\ Len(Db.tokens) = 3
    /\ Db.tokens[1].sort_order = 1
    /\ Db.tokens[2].sort_order = 0
    /\ Db.tokens[3].sort_order = 2
    /\ SortOrdersDistinct(Db)

\* ------------------------------------------------------------------ C39
\* the commands of the facade that only read
ReadOnlyCommands ==
    {"vault_is_locked", "vault_exists", "vault_export_uris", "vault_export_encrypted",
     "otp_generate_totp", "otp_generate_hotp"}

\* C39: vault_is_locked, vault_exists, vault_export_uris,
\* vault_export_encrypted, otp_generate_totp and otp_generate_hotp, whether
\* they succeed or fail, leave the handle, the listing cache, the persisted
\* salts and the vault file, so every field of every stored token (the HOTP
\* counter, sort_order and updated_at among them), as they were.
C39_ReadOnlyCommandsChangeNothing ==
    [][ last'.op \in ReadOnlyCommands
            => UNCHANGED <<vault, token_cache, saltsFile, vaultFile>> ]_vars

\* a code was generated for a stored HOTP token while the listing was cached
C39_Witness ==
    /\ last.op = "otp_generate_hotp"
    /\ last.res.ok
    /\ IsSome(vault)
    /\ IsSome(token_cache)
    /\ \E k \in 1..Len(StoredTokens) : StoredTokens[k].token_type = TOKEN_TYPE_HOTP

=============================================================================
